---------------------------- MODULE Spec2Model ----------------------------
(***************************************************************************)
(* A model of SILC: the RawByteBuffer of a session (silc/core/raw_buffer), *)
(* the session's run_command state machine and its readers                 *)
(* (silc/core/session, silc/api/server) and the daemon's session maps,     *)
(* registry and cleanup tasks (silc/daemon/manager, silc/daemon/registry). *)
(*                                                                         *)
(* Every action is one run of a handler between two suspension points of  *)
(* the single asyncio event loop: code between two awaits is atomic.       *)
(***************************************************************************)
EXTENDS Integers, Sequences, FiniteSets, TLC

(***************************************************************************)
(* Bounds of the model.                                                    *)
(***************************************************************************)
\* largest maxlen a RawByteBuffer is constructed with in BufSpec
MaxCap == 3
\* largest number of bytes appended to one buffer in BufSpec
MaxTotal == 5
\* longest data of one append in BufSpec
MaxChunk == 2

None == 0

Max(a, b) == IF a >= b THEN a ELSE b
Min(a, b) == IF a <= b THEN a ELSE b

\* the sequences over S of length 0..n
SeqUpTo(S, n) == UNION {[1..k -> S] : k \in 0..n}

\* s[i:] of Python for 0 <= i (0-based index i)
SliceFrom(s, i) == SubSeq(s, i + 1, Len(s))

\* the last n elements of s (all of s when it is shorter)
LastN(s, n) == SubSeq(s, Max(Len(s) - n, 0) + 1, Len(s))

VARIABLES
    buffer,     \* the RawByteBuffer: [maxlen, buf, start_offset, total_bytes, cursor]
    hist,       \* ghost: every byte appended since construction (or the last clear), in order
    last,       \* ghost: the last buffer operation and what it returned
    \* ---- SilcSession ----
    read_task,        \* _read_task: "running" or "done"
    closed,           \* _closed
    run_lock,         \* run_lock.locked()
    current_run_cmd,  \* current_run_cmd (None or a command)
    run,              \* per caller: the run_command call it has in progress and its last result
    nruns,            \* number of run tokens generated so far
    ret,              \* ghost: how the last run_command call to end ended, and for whom
    ptyIn,            \* what was written to the PTY and the shell has not consumed yet
    ptyOut,           \* bytes the shell has produced and the read loop has not read yet
    reader,           \* the WebSocket sender: [active, cursor]
    nclears,          \* number of clear_screen, reset_terminal and clear_buffer calls so far
    \* ---- SilcDaemon ----
    sessions,         \* self.sessions: port -> the session (its name), NoName if absent
    servers,          \* the keys of self.servers
    session_tasks,    \* the keys of self._session_tasks
    session_sockets,  \* the keys of self._session_sockets: each a bound, listening socket
    foreign,          \* the ports another process listens on
    registry,         \* self.registry: [sessions: port -> name, name_index: name -> port]
    sessions_json,    \* sessions.json: a sequence of [port, name] records
    creating,         \* port -> the name of the create_session call awaiting session.start()
    cleanup_tasks,    \* self._cleanup_tasks: port -> task, NoTask if absent
    task,             \* the _cleanup_session tasks created so far: [port, pc]
    ntasks,           \* number of _cleanup_session tasks created so far
    gc,               \* _garbage_collect: [pending: ports still to clean, wait: the task awaited]
    resp,             \* ghost: the last response of the daemon API: [op, port, status]
    nreq,             \* ghost: number of POST /sessions requests so far
    \* ---- SilcSession: its API, its WebSockets, its end ----
    api_token,        \* api_token: a string, empty when the session has no token
    http,             \* ghost: the last request to the session API and its answer
    tui_active,       \* tui_active
    ws,               \* the accepted WebSocket connections whose handler has not ended
    gc_task,          \* _gc_task: "running", "cancelled", "done" or "none"
    idle_time,        \* now - last_access, in GC intervals
    pty_kills,        \* ghost: number of pty.kill() calls so far
    closer,           \* per caller of close() and force_kill(): the call in progress
    \* ---- SilcDaemon: logs, time, its end ----
    session_logs,     \* the ports with a session_<port>.log file
    reg_idle,         \* port -> now - last_access of its registry entry, in GC intervals
    stopper,          \* the stop in progress: [op, ports still to clean, wait: the task awaited, phase]
    up,               \* the daemon process is running
    stopped_live,     \* ghost: the sessions, as [port, name], that were live when the stop began
    \* ---- the host and the utilities ----
    found,            \* ghost: the last find_available_port call: [start, end, port]
    exact_cache,       \* LineDeduplicator._exact_cache: a set of normalized lines
    diff,              \* ghost: what the last compute_diff call returned
    active_streams,    \* StreamingService.active_streams: filename -> task, NoTask if absent
    stream_task,       \* the stream tasks created so far: [file, pc]
    waiting,           \* the stop_stream calls suspended in 'await task', in the order they began to wait: [task, file]
    sret,              \* ghost: the last return of start_stream or stop_stream: [op, file, task, result]
    wrote,             \* ghost: the last write of a stream task: [file, task]
    pidfile,           \* the PID file: the PID it holds, NoPid when it does not exist
    starter,           \* per daemon process: where it is in SilcDaemon.start, "off" when it does not exist
    daemon_port,       \* the process listening on DAEMON_PORT, NoPid if none
    res,               \* the _resurrect_sessions call in progress: [pc, entries still to process, cur, read, result, calls]
    \* ---- SilcSession: the parser of run_command, the input lock, the PTY ----
    max_collected,     \* MAX_COLLECTED_BYTES, scaled
    input_lock,        \* input_lock: [locked, waiters: the write_input calls waiting, first come first]
    writer,            \* per caller of write_input: where its call is, and (ghost) the PTY writes made before it took the lock
    ninputs,           \* number of write_input calls so far
    shell_up,          \* the shell behind the PTY runs: FALSE once it has exited and the PTY is closed
    read_pc,          \* where _read_loop is suspended: "read" in pty.read, "sleep" in sleep(0.1)
    stream_file,      \* the lines of the file of each append-mode stream
    last_round,       \* the last round of an append task: its file, what it gave compute_diff
    binding,          \* where the server of the named session listens: "none", "local" or "global"
    json_global,      \* the is_global of the session's record in sessions.json, "none" without a record
    origin            \* ghost: the token and the binding of the POST /sessions that created the session

bufVars == <<buffer, hist, last>>

lifeVars == <<read_task, closed>>

lockVars == <<run_lock, current_run_cmd>>

runVars == <<run, nruns, ret>>

ptyVars == <<ptyIn, ptyOut>>

apiVars == <<api_token, http>>

wsVars == <<tui_active, ws>>

endVars == <<gc_task, pty_kills, closer>>

sessSide == <<apiVars, wsVars, endVars, idle_time>>

sessVars == <<lifeVars, lockVars, runVars, ptyVars, reader, nclears, sessSide>>

mapVars == <<sessions, servers, session_tasks, session_sockets>>

persistVars == <<registry, sessions_json>>

cleanupVars == <<cleanup_tasks, task, ntasks>>

stopVars == <<stopper, up, stopped_live>>

daemonSide == <<session_logs, reg_idle, stopVars>>

portVars == <<found>>

dedupVars == <<exact_cache, diff>>

streamVars == <<active_streams, stream_task, waiting, sret, wrote>>

pidVars == <<pidfile, starter, daemon_port>>

\* state added for the parser of run_command, the input lock and the PTY's end
shareVars == <<stream_file, last_round>>

tokenVars == <<binding, json_global, origin>>

auxVars == <<max_collected, input_lock, writer, ninputs, shell_up, read_pc, shareVars, tokenVars>>

extraVars == <<portVars, dedupVars, streamVars, pidVars, res, auxVars>>

utilVars == <<portVars, dedupVars, streamVars, pidVars, auxVars>>

hostVars == <<foreign, extraVars>>

\* the daemon, the host and the utilities
otherVars == <<mapVars, foreign, portVars, dedupVars, streamVars, pidVars, res, persistVars,
               creating, cleanupVars, gc, resp, nreq, daemonSide, shareVars>>

daemonVars == <<mapVars, hostVars, persistVars, creating, cleanupVars, gc, resp, nreq,
                daemonSide>>

vars == <<buffer, hist, last, read_task, closed, run_lock,
          current_run_cmd, run, nruns, ret, ptyIn, ptyOut, reader, nclears,
          sessions, servers, session_tasks, session_sockets, foreign, registry,
          sessions_json, creating, cleanup_tasks, task, ntasks, gc, resp, nreq,
          api_token, http, tui_active, ws, gc_task, idle_time, pty_kills, closer,
          session_logs, reg_idle, stopper, up, stopped_live, found, exact_cache, diff, active_streams, stream_task, waiting, sret, wrote, pidfile, starter, daemon_port, res, max_collected, input_lock, writer, ninputs, shell_up, read_pc, stream_file, last_round, binding, json_global, origin>>

(***************************************************************************)
(* RawByteBuffer                                                           *)
(***************************************************************************)
\* RawByteBuffer.__init__
NewBuffer(maxlen) ==
    [maxlen |-> maxlen, buf |-> <<>>, start_offset |-> 0, total_bytes |-> 0, cursor |-> 0]

\* a plausible slip: the overflow is trimmed but start_offset is not advanced
appendNoOffset(b, data) ==
    IF data = <<>> THEN b
    ELSE LET ext == b.buf \o data
             tot == b.total_bytes + Len(data)
         IN  IF Len(ext) <= b.maxlen
             THEN [b EXCEPT !.buf = ext, !.total_bytes = tot, !.cursor = tot]
             ELSE [b EXCEPT !.buf = SliceFrom(ext, Len(ext) - b.maxlen),
                            !.total_bytes = tot, !.cursor = tot]

\* RawByteBuffer.append
append(b, data) ==
    IF data = <<>> THEN b
    ELSE LET ext == b.buf \o data
             tot == b.total_bytes + Len(data)
         IN  IF Len(ext) <= b.maxlen
             THEN [b EXCEPT !.buf = ext, !.total_bytes = tot, !.cursor = tot]
             ELSE LET overflow == Len(ext) - b.maxlen
                  IN  [b EXCEPT !.buf = SliceFrom(ext, overflow),
                                !.total_bytes = tot, !.cursor = tot,
                                !.start_offset = @ + overflow]

\* a plausible slip: the cursor is used as an index without subtracting start_offset
get_sinceNoRebase(b, cursor) ==
    LET c1 == IF cursor < b.start_offset THEN b.start_offset ELSE cursor
        c2 == IF c1 > b.total_bytes THEN b.total_bytes ELSE c1
        start_index == Max(c2, 0)
    IN  IF start_index >= Len(b.buf)
        THEN [chunk |-> <<>>, cursor |-> b.total_bytes]
        ELSE [chunk |-> SliceFrom(b.buf, start_index), cursor |-> b.total_bytes]

\* RawByteBuffer.get_since: the chunk and the new cursor
get_since(b, cursor) ==
    LET c1 == IF cursor < b.start_offset THEN b.start_offset ELSE cursor
        c2 == IF c1 > b.total_bytes THEN b.total_bytes ELSE c1
        start_index == Max(c2 - b.start_offset, 0)
    IN  IF start_index >= Len(b.buf)
        THEN [chunk |-> <<>>, cursor |-> b.total_bytes]
        ELSE [chunk |-> SliceFrom(b.buf, start_index), cursor |-> b.total_bytes]

\* RawByteBuffer.clear
clear(b) ==
    [b EXCEPT !.buf = <<>>, !.start_offset = 0, !.total_bytes = 0, !.cursor = 0]

\* RawByteBuffer.get_bytes
get_bytes(b) == b.buf

(***************************************************************************)
(* SilcSession: constants and the byte alphabet of the PTY stream.         *)
(*                                                                         *)
(* Bytes are small integers.  A marker "__SILC_BEGIN_<token>__" is the two *)
(* bytes <<BEG, TokByte(token)>>, the prefix "__SILC_END_<token>__:" the   *)
(* two bytes <<END, TokByte(token)>>: a marker can straddle two polls, and *)
(* markers of different tokens differ.                                     *)
(***************************************************************************)
NL == 0
X == 1
D0 == 2
D1 == 3
BEG == 4
END == 5
TokByte(t) == 10 + t

\* callers that may have a run_command call in progress at the same time
NCallers == 2
\* handlers that may call close() or force_kill() on the session, besides its GC loop
NEnders == 2
\* run_command calls that get past the busy check, over the whole run
MaxRuns == 2
\* largest timeout of a call, in polls of 50 ms
MaxPolls == 2
\* writes to the PTY that the shell has not consumed yet (other than invocations)
MaxPtyIn == 1
\* DEFAULT_BUFFER_SIZE, scaled
BufSize == 4
\* the read size of _read_loop, scaled
ReadSize == 4
\* MAX_COLLECTED_BYTES, scaled: more than a poll can return before BEGIN is found
MaxCollected == 4

Callers == 1..NCallers
\* a timeout on which loop.time() + timeout raises TypeError (JSON null, a string)
NotANumber == -1
Timeouts == {0, MaxPolls, NotANumber}

\* what pty.write was called with, other than an invocation (a token >= 1)
CTRLC == -2
CLEARSEQ == -3
RESETSEQ == -4

\* a plausible slip: the marker does not carry the token of the call
begin_markerFixed(token) == <<BEG, TokByte(1)>>

\* begin_marker of run_command
begin_marker(token) == <<BEG, TokByte(token)>>
\* end_prefix of run_command
end_prefix(token) == <<END, TokByte(token)>>

\* bytes.find: the 0-based index of the first occurrence of m in s, or -1
Find(s, m) ==
    LET idx == {i \in 0..(Len(s) - Len(m)) : SubSeq(s, i + 1, i + Len(m)) = m}
    IN  IF idx = {} THEN -1 ELSE CHOOSE i \in idx : \A j \in idx : i <= j

\* "while collected and collected[0] in (10, 13): del collected[0]"
StripLeadingNL(s) ==
    LET k == CHOOSE n \in 0..Len(s) :
                 /\ \A i \in 1..n : s[i] = NL
                 /\ (n = Len(s) \/ s[n + 1] # NL)
    IN  SliceFrom(s, k)

\* the 0-based index of the first CR/LF of tail, or -1 (newline_index is None)
FirstNewline(tail) ==
    LET idx == {i \in 1..Len(tail) : tail[i] = NL}
    IN  IF idx = {} THEN -1 ELSE (CHOOSE i \in idx : \A j \in idx : i <= j) - 1

IsDigit(b) == b \in {D0, D1}

RECURSIVE DecValue(_)
\* int() of a string of digits
DecValue(ds) ==
    IF ds = <<>> THEN 0
    ELSE 10 * DecValue(SubSeq(ds, 1, Len(ds) - 1)) + (ds[Len(ds)] - D0)

\* exit_code of run_command: the digits before the newline, 0 when there are none
ExitCode(exit_text) ==
    LET exit_digits == SelectSeq(exit_text, IsDigit)
    IN  IF exit_digits = <<>> THEN 0 ELSE DecValue(exit_digits)

RECURSIVE split(_)
\* output_text.split("\n"): the lines of s, one more than its newlines
split(s) ==
    LET i == FirstNewline(s)
    IN  IF i < 0 THEN <<s>> ELSE <<SubSeq(s, 1, i)>> \o split(SliceFrom(s, i + 1))

\* SILC_SENTINEL_PATTERN.search(line): a BEGIN or END marker of any token
sentinel(line) ==
    \E i \in 1..(Len(line) - 1) : line[i] \in {BEG, END} /\ line[i + 1] >= TokByte(0)

RECURSIVE blank_runs(_, _)
\* the last loop of clean_output: of consecutive blank lines the first is kept
blank_runs(lines, blank_count) ==
    IF lines = <<>> THEN <<>>
    ELSE IF Head(lines) # <<>> THEN <<Head(lines)>> \o blank_runs(Tail(lines), 0)
    ELSE IF blank_count = 0 THEN <<Head(lines)>> \o blank_runs(Tail(lines), 1)
    ELSE blank_runs(Tail(lines), blank_count + 1)

\* clean_output, for lines without escape sequences and progress bars
clean_output(raw_lines) == blank_runs(raw_lines, 0)

RECURSIVE join(_)
\* "\n".join(lines)
join(lines) ==
    IF lines = <<>> THEN <<>>
    ELSE IF Len(lines) = 1 THEN lines[1]
    ELSE lines[1] \o <<NL>> \o join(Tail(lines))

\* the "output" of a completed run_command: the lines of output_bytes that hold
\* no marker, cleaned
run_output(output_bytes) ==
    join(clean_output(SelectSeq(split(output_bytes), LAMBDA line : ~sentinel(line))))

\* ret before any call has ended
NoResult == [caller |-> None, status |-> "none", exit_code |-> None, running_cmd |-> None,
             holder_cmd |-> None]

\* a caller with no call in progress
IdleRun == [pc |-> "idle", cmd |-> None, timeout |-> 0, token |-> 0, cursor |-> 0,
            collected |-> <<>>, started |-> FALSE, exit_code |-> None, output |-> <<>>]

\* a session without a token: api_token is None or ""
NoToken == <<>>
\* no request has been made
NoHttp == [endpoint |-> "none", peer |-> "none", cred |-> <<>>, status |-> 0, effect |-> "none"]
\* the callers of close() and force_kill(): 0 is the session's own GC loop
Enders == 0..NEnders
\* a caller with no close() or force_kill() call in progress
IdleEnd == [pc |-> "idle", op |-> "none", calls |-> 0]

\* a session created without a token, before its first request
ApiIdle ==
    /\ api_token = NoToken
    /\ http = NoHttp

\* SilcSession.__init__ and start: the session as create_session hands it to its
\* server, with the read loop running and the helper injected
SessIdle ==
    /\ read_task = "running"
    /\ closed = FALSE
    /\ run_lock = FALSE
    /\ current_run_cmd = None
    /\ run = [c \in Callers |-> IdleRun]
    /\ nruns = 0
    /\ nclears = 0
    /\ ret = NoResult
    /\ ptyIn = <<>>
    /\ ptyOut = <<>>
    /\ reader = [active |-> FALSE, cursor |-> 0]
    /\ tui_active = FALSE
    /\ ws = {}
    /\ gc_task = "running"
    /\ idle_time = 0
    /\ pty_kills = 0
    /\ closer = [k \in Enders |-> IdleEnd]

(***************************************************************************)
(* SilcDaemon: constants and the state of a daemon with no session.        *)
(***************************************************************************)
\* the ports sessions are created on
Ports == {1, 2}
\* the valid session names
Names == {1, 2}
\* cleanup tasks created over the whole run
MaxTasks == 3
\* POST /sessions requests over the whole run
MaxCreates == 2

NoPort == 0
NoFind == [start |-> 0, end |-> 0, port |-> 0]
NoName == 0
NoTask == 0
\* a request without a name: create_session generates one
Auto == 0
\* a name that is_valid_name rejects
Invalid == -1

Tasks == 1..MaxTasks
\* no shutdown and no killall is in progress
NoStop == [op |-> "none", ports |-> <<>>, wait |-> NoTask, phase |-> "none"]
NoTaskRec == [port |-> NoPort, pc |-> "none"]
NoResp == [op |-> "none", port |-> NoPort, status |-> 0]

\* the filenames streams are started on
Files == {1, 2}
\* stream tasks created over the whole run
MaxStreamTasks == 3
StreamTasks == 1..MaxStreamTasks
\* stop_stream calls suspended at one time
MaxWaiting == 2
NoStreamTask == [file |-> 0, pc |-> "none"]
\* no POST /sessions for the name yet
NoOrigin == [token |-> <<>>, binding |-> "none"]
\* no round of an append task yet
NoRound == [file |-> 0, existing_lines |-> <<>>, new_lines |-> <<>>]
NoStreamRet == [op |-> "none", file |-> 0, task |-> NoTask, result |-> "none"]

\* the daemon processes of the host, by PID
NProcs == 3
Procs == 1..NProcs
NoPid == 0
\* os.getpid() of the daemon whose maps the model holds
DaemonPid == 1

\* no _resurrect_sessions call has been made
NoResurrect == [pc |-> "idle", entries |-> <<>>, cur |-> [port |-> 0, name |-> 0, orig |-> 0],
                read |-> <<>>, result |-> <<>>, calls |-> 0]

\* no call of a utility has been made
UtilIdle ==
    /\ found = NoFind
    /\ exact_cache = {}
    /\ diff = <<>>
    /\ active_streams = [f \in Files |-> NoTask]
    /\ stream_task = [t \in StreamTasks |-> NoStreamTask]
    /\ waiting = <<>>
    /\ sret = NoStreamRet
    /\ wrote = [file |-> 0, task |-> NoTask]
    /\ res = NoResurrect

\* no daemon process exists and there is no PID file
PidIdle ==
    /\ pidfile = NoPid
    /\ starter = [p \in Procs |-> "off"]
    /\ daemon_port = NoPid

\* callers that may have a write_input call in progress at the same time
NWriters == 2
Writers == 1..NWriters
\* write_input calls over the whole run
MaxInputs == 3
\* what write_input writes to the PTY: the text of the caller
INPUT == -5
\* a caller with no write_input call in progress
IdleWriter == [pc |-> "idle", at |-> 0]

\* the constants of session.py, scaled as for Spec
ConstIdle == max_collected = MaxCollected

\* a session nobody writes to, with its shell running
AuxIdle ==
    /\ input_lock = [locked |-> FALSE, waiters |-> <<>>]
    /\ writer = [w \in Writers |-> IdleWriter]
    /\ ninputs = 0
    /\ shell_up = TRUE
    /\ read_pc = "read"
    /\ stream_file = [f \in Files |-> <<>>]
    /\ last_round = NoRound
    /\ binding = "none"
    /\ json_global = "none"
    /\ origin = NoOrigin

ExtraIdle == UtilIdle /\ PidIdle /\ ConstIdle /\ AuxIdle

\* SilcDaemon.__init__
DaemonFresh ==
    /\ sessions = [p \in Ports |-> NoName]
    /\ servers = {}
    /\ session_tasks = {}
    /\ session_sockets = {}
    /\ foreign = {}
    /\ registry = [sessions |-> [p \in Ports |-> NoName], name_index |-> [n \in Names |-> NoPort]]
    /\ sessions_json = <<>>
    /\ creating = [p \in Ports |-> NoName]
    /\ cleanup_tasks = [p \in Ports |-> NoTask]
    /\ task = [t \in Tasks |-> NoTaskRec]
    /\ ntasks = 0
    /\ gc = [pending |-> <<>>, wait |-> NoTask]
    /\ resp = NoResp
    /\ nreq = 0
    /\ session_logs = {}
    /\ reg_idle = [p \in Ports |-> 0]
    /\ stopper = NoStop
    /\ up = TRUE
    /\ stopped_live = {}

DaemonIdle == DaemonFresh /\ ExtraIdle

(***************************************************************************)
(* BufSpec: one RawByteBuffer driven by arbitrary appends, reads, clears.  *)
(***************************************************************************)
BufBytes == {1, 2}

NoOp == [op |-> "none", c |-> 0, chunk |-> <<>>, cursor |-> 0, pre |-> NewBuffer(0)]

BufInit ==
    /\ \E m \in 0..MaxCap : buffer = NewBuffer(m)
    /\ hist = <<>>
    /\ last = NoOp
    /\ SessIdle
    /\ ApiIdle
    /\ DaemonIdle

\* buffer.append(data)
BufAppend ==
    \E data \in SeqUpTo(BufBytes, MaxChunk) :
        /\ Len(hist) + Len(data) <= MaxTotal
        /\ buffer' = append(buffer, data)
        /\ hist' = hist \o data
        /\ last' = [NoOp EXCEPT !.op = "append", !.pre = buffer]
        /\ UNCHANGED <<sessVars, daemonVars>>

\* buffer.get_since(c) for any integer cursor c
BufGetSince ==
    \E c \in -1..(MaxTotal + 1) :
        LET r == get_since(buffer, c)
        IN  /\ last' = [op |-> "get_since", c |-> c, chunk |-> r.chunk,
                        cursor |-> r.cursor, pre |-> buffer]
            /\ UNCHANGED <<buffer, hist>>
            /\ UNCHANGED <<sessVars, daemonVars>>

\* buffer.clear(): the buffer is again as constructed, and so is its history
BufClear ==
    /\ buffer' = clear(buffer)
    /\ hist' = <<>>
    /\ last' = [NoOp EXCEPT !.op = "clear", !.pre = buffer]
    /\ UNCHANGED <<sessVars, daemonVars>>

BufNext == BufAppend \/ BufGetSince \/ BufClear

BufSpec == BufInit /\ [][BufNext]_vars


(***************************************************************************)
(* Spec: one SilcSession.  The run_command calls of its callers, its read  *)
(* loop and the shell behind the PTY run as tasks of one event loop; a     *)
(* call may be cancelled and the session closed at any await.              *)
(***************************************************************************)
\* the kernel's PTY buffer: the shell blocks when it is full
PtyBufSize == 20

\* an output longer than MAX_COLLECTED_BYTES
LongOutput == [i \in 1..(MaxCollected + 1) |-> X]
Outputs == {<<>>, LongOutput}
ExitDigits == {D1}

\* what the helper __silc_exec prints for one invocation, after the terminal's
\* echo of the line: the BEGIN line, the command's output, the END line
Frame(t, out, code) ==
    <<X>> \o begin_marker(t) \o <<NL>> \o out \o end_prefix(t) \o <<code>> \o <<NL>>

SessInit ==
    /\ buffer = NewBuffer(BufSize)
    /\ hist = <<>>
    /\ last = NoOp
    /\ SessIdle
    /\ ApiIdle
    /\ DaemonIdle

\* a plausible slip: the busy check is missing
lockedNever == FALSE

\* run_lock.locked()
locked == run_lock

\* ghost: the command of the call that is past the busy check, None if there is none
HolderCmd ==
    LET H == {d \in Callers : run[d].pc # "idle"}
    IN  IF H = {} THEN None ELSE run[CHOOSE d \in H : TRUE].cmd

\* a plausible slip: the busy result does not carry the running command
BusyResultNoCmd(c) ==
    [caller |-> c, status |-> "busy", exit_code |-> None, running_cmd |-> None,
     holder_cmd |-> HolderCmd]

\* the result of a call that finds the lock held
BusyResult(c) ==
    [caller |-> c, status |-> "busy", exit_code |-> None, running_cmd |-> current_run_cmd,
     holder_cmd |-> HolderCmd]

\* _read_loop: one pty.read, which returns what the PTY holds, up to ReadSize
\* bytes, appended to the buffer
ReadLoop ==
    /\ read_task = "running"
    /\ ptyOut # <<>>
    /\ LET k == Min(ReadSize, Len(ptyOut))
       IN  /\ buffer' = append(buffer, SubSeq(ptyOut, 1, k))
           /\ hist' = hist \o SubSeq(ptyOut, 1, k)
           /\ ptyOut' = SliceFrom(ptyOut, k)
    /\ UNCHANGED <<last, lifeVars, daemonVars, sessSide, nclears, lockVars, runVars, ptyIn, reader>>

\* the shell consumes one line written to the PTY and prints its output
ShellStep ==
    /\ ~closed
    /\ ptyIn # <<>>
    /\ \E bytes \in (IF Head(ptyIn) >= 1
                     THEN {Frame(Head(ptyIn), out, code) : out \in Outputs, code \in ExitDigits}
                     ELSE {<<>>}) :
           /\ Len(ptyOut) + Len(bytes) <= PtyBufSize
           /\ ptyOut' = ptyOut \o bytes
    /\ ptyIn' = Tail(ptyIn)
    /\ UNCHANGED <<bufVars, lifeVars, daemonVars, sessSide, nclears, lockVars, runVars, reader>>

\* run_command returns (or raises): the "async with" releases the lock
Return(c, status, exit_code, clear_cmd) ==
    /\ run' = [run EXCEPT ![c] = IdleRun]
    /\ ret' = [NoResult EXCEPT !.caller = c, !.status = status, !.exit_code = exit_code]
    /\ run_lock' = FALSE
    /\ current_run_cmd' = IF clear_cmd THEN None ELSE current_run_cmd

\* run_command, from the call to its first await, the write of the invocation
\* (_ensure_helper_ready returns at once: start has injected the helper)
RunCall(c) ==
    /\ run[c].pc = "idle"
    /\ \E cmd \in {c}, timeout \in Timeouts :
           IF locked
           THEN /\ ret' = BusyResult(c)
                /\ UNCHANGED <<run, run_lock, current_run_cmd, nruns, ptyIn>>
           ELSE /\ nruns < MaxRuns
                /\ run_lock' = TRUE
                /\ current_run_cmd' = cmd
                /\ nruns' = nruns + 1
                /\ run' = [run EXCEPT ![c] =
                              [IdleRun EXCEPT !.pc = "write",
                                              !.cmd = cmd, !.timeout = timeout,
                                              !.token = nruns + 1,
                                              !.cursor = buffer.cursor]]
                /\ ptyIn' = Append(ptyIn, nruns + 1)
                /\ UNCHANGED ret
    /\ UNCHANGED <<bufVars, lifeVars, daemonVars, sessSide, nclears, ptyOut, reader>>

\* a plausible slip: the cap is never looked at
over_capNever(collected) == FALSE

\* "if len(collected) > MAX_COLLECTED_BYTES"
over_cap(collected) == Len(collected) > max_collected

\* a plausible slip: the command is interrupted at the deadline
at_deadlineInterrupts(pty_in) == Append(pty_in, CTRLC)

\* what run_command writes to the PTY once its loop has ended at the deadline:
\* nothing
at_deadline(pty_in) == pty_in

\* one iteration of the polling loop of run_command, up to its sleep or its return,
\* when get_since has returned g: what it leaves in the locals and how it ends
Poll(r, g) ==
    LET col1 == r.collected \o g.chunk
        begin_index == Find(col1, begin_marker(r.token))
        col2 == IF r.started THEN col1
                ELSE StripLeadingNL(SliceFrom(col1, begin_index + Len(begin_marker(r.token))))
        end_index == Find(col2, end_prefix(r.token))
        tail == SliceFrom(col2, end_index + Len(end_prefix(r.token)))
        newline_index == FirstNewline(tail)
        base == [outcome |-> "sleep", cursor |-> g.cursor, collected |-> r.collected,
                 started |-> r.started, exit_code |-> None, output |-> <<>>]
    IN  IF g.chunk = <<>> THEN base
        ELSE IF over_cap(col1)
        THEN [base EXCEPT !.outcome = "error", !.collected = col1]
        ELSE IF ~r.started /\ begin_index < 0
        THEN [base EXCEPT !.collected = LastN(col1, Len(begin_marker(r.token)))]
        ELSE IF end_index < 0 \/ newline_index < 0
        THEN [base EXCEPT !.collected = col2, !.started = TRUE]
        ELSE [base EXCEPT !.outcome = "completed", !.collected = col2, !.started = TRUE,
                          !.exit_code = ExitCode(SubSeq(tail, 1, newline_index)),
                          !.output = run_output(SubSeq(col2, 1, end_index))]

\* one iteration of the polling loop of run_command on the session's buffer
PollStep(r) == Poll(r, get_since(buffer, r.cursor))

\* a plausible slip: the deadline moves with every poll, so it is never reached
RemainingStuck(timeout) == timeout

\* the polls left before the deadline once one more sleep(0.05) has passed
Remaining(timeout) == timeout - 1

\* the loop of run_command from "while loop.time() < deadline" to the next await
LoopIter(c) ==
    LET r == run[c]
        p == PollStep(r)
    IN  IF r.timeout = 0
        THEN /\ Return(c, "timeout", None, TRUE)
             /\ ptyIn' = at_deadline(ptyIn)
        ELSE /\ run' = [run EXCEPT ![c] =
                           [r EXCEPT !.pc = CASE p.outcome = "sleep" -> "poll"
                                             [] p.outcome = "error" -> "intr"
                                             [] p.outcome = "completed" -> "fin",
                                     !.timeout = IF p.outcome = "sleep" THEN Remaining(@) ELSE @,
                                     !.cursor = p.cursor,
                                     !.collected = p.collected,
                                     !.started = p.started,
                                     !.exit_code = p.exit_code,
                                     !.output = p.output]]
             /\ ptyIn' = IF p.outcome = "error" THEN Append(ptyIn, CTRLC) ELSE ptyIn
             /\ UNCHANGED <<lockVars, ret>>

\* run_command after the invocation is written: the deadline, then the first poll
RunAfterWrite(c) ==
    /\ run[c].pc = "write"
    /\ IF run[c].timeout = NotANumber
       THEN /\ Return(c, "raised", None, FALSE)
            /\ UNCHANGED ptyIn
       ELSE LoopIter(c)
    /\ UNCHANGED <<bufVars, lifeVars, daemonVars, sessSide, nclears, nruns, ptyOut, reader>>

\* run_command wakes from a sleep(0.05) of its loop
RunPoll(c) ==
    /\ run[c].pc = "poll"
    /\ LoopIter(c)
    /\ UNCHANGED <<bufVars, lifeVars, daemonVars, sessSide, nclears, nruns, ptyOut, reader>>

\* run_command after the END line was parsed and sleep(0.05): completed
RunFinish(c) ==
    /\ run[c].pc = "fin"
    /\ Return(c, "completed", run[c].exit_code, TRUE)
    /\ UNCHANGED <<bufVars, lifeVars, daemonVars, sessSide, nclears, nruns, ptyVars, reader>>

\* run_command after Ctrl-C was written and sleep(INTERRUPT_DELAY): error
RunErrFinish(c) ==
    /\ run[c].pc = "intr"
    /\ Return(c, "error", -1, TRUE)
    /\ UNCHANGED <<bufVars, lifeVars, daemonVars, sessSide, nclears, nruns, ptyVars, reader>>

\* the task running run_command is cancelled while it awaits: CancelledError
\* leaves through the "async with", nothing else of the method runs
RunCancel(c) ==
    /\ run[c].pc \in {"write", "poll", "intr", "fin"}
    /\ Return(c, "raised", None, FALSE)
    /\ UNCHANGED <<bufVars, lifeVars, daemonVars, sessSide, nclears, nruns, ptyVars, reader>>

\* most clear_screen, reset_terminal and clear_buffer calls on one session
MaxClears == 1

\* SilcSession.clear_screen
ClearScreen ==
    /\ nclears < MaxClears
    /\ nclears' = nclears + 1
    /\ Len(ptyIn) < MaxPtyIn
    /\ buffer' = clear(buffer)
    /\ hist' = <<>>
    /\ ptyIn' = Append(ptyIn, CLEARSEQ)
    /\ UNCHANGED <<last, lifeVars, daemonVars, apiVars, wsVars, endVars, lockVars, runVars, ptyOut, reader>>
    /\ idle_time' = 0

\* SilcSession.reset_terminal
ResetTerminal ==
    /\ nclears < MaxClears
    /\ nclears' = nclears + 1
    /\ Len(ptyIn) < MaxPtyIn
    /\ buffer' = clear(buffer)
    /\ hist' = <<>>
    /\ ptyIn' = Append(ptyIn, RESETSEQ)
    /\ UNCHANGED <<last, lifeVars, daemonVars, apiVars, wsVars, endVars, lockVars, runVars, ptyOut, reader>>
    /\ idle_time' = 0

\* SilcSession.clear_buffer
ClearBuffer ==
    /\ nclears < MaxClears
    /\ nclears' = nclears + 1
    /\ buffer' = clear(buffer)
    /\ hist' = <<>>
    /\ UNCHANGED <<last, lifeVars, daemonVars, sessSide, lockVars, runVars, ptyVars, reader>>

\* SilcSession.close, its tasks unwinding at once: the tasks are cancelled and
\* the PTY killed
Close ==
    /\ ~closed
    /\ closed' = TRUE
    /\ tui_active' = FALSE
    /\ read_task' = "done"
    /\ gc_task' = "done"
    /\ pty_kills' = pty_kills + 1
    /\ UNCHANGED <<bufVars, lockVars, runVars, ptyVars, reader, nclears, daemonVars,
                   apiVars, ws, closer, idle_time>>

\* websocket_endpoint: send_updates starts with the buffer's cursor
ReaderStart ==
    /\ ~reader.active
    /\ reader' = [active |-> TRUE, cursor |-> buffer.cursor]
    /\ UNCHANGED <<bufVars, lifeVars, daemonVars, sessSide, nclears, lockVars, runVars, ptyVars>>

\* send_updates: one get_since with the cursor it last received
ReaderPoll ==
    /\ reader.active
    /\ reader' = [reader EXCEPT !.cursor = get_since(buffer, reader.cursor).cursor]
    /\ UNCHANGED <<bufVars, lifeVars, daemonVars, sessSide, nclears, lockVars, runVars, ptyVars>>

\* the WebSocket disconnects: the sender task is cancelled
ReaderStop ==
    /\ reader.active
    /\ reader' = [active |-> FALSE, cursor |-> 0]
    /\ UNCHANGED <<bufVars, lifeVars, daemonVars, sessSide, nclears, lockVars, runVars, ptyVars>>

\* the steps the event loop takes for a run_command call once its awaits complete
RunStep(c) ==
    RunAfterWrite(c) \/ RunPoll(c) \/ RunFinish(c) \/ RunErrFinish(c)

Next ==
    \/ ReadLoop
    \/ ShellStep
    \/ \E c \in Callers : RunCall(c)
    \/ \E c \in Callers : RunAfterWrite(c)
    \/ \E c \in Callers : RunPoll(c)
    \/ \E c \in Callers : RunFinish(c)
    \/ \E c \in Callers : RunErrFinish(c)
    \/ \E c \in Callers : RunCancel(c)
    \/ Close

Spec == SessInit /\ [][Next]_vars

(***************************************************************************)
(* CursorSpec: a reader of one session's buffer.  The WebSocket sender     *)
(* polls the buffer while the read loop appends whatever the PTY produces  *)
(* (BufAppend) and clear_screen, reset_terminal and clear_buffer clear it. *)
(***************************************************************************)
CursorNext ==
    \/ BufAppend
    \/ ShellStep
    \/ ClearScreen
    \/ ResetTerminal
    \/ ClearBuffer
    \/ ReaderStart
    \/ ReaderPoll
    \/ ReaderStop

CursorSpec == SessInit /\ [][CursorNext]_vars

(***************************************************************************)
(* DaemonSpec: one SilcDaemon.  Its request handlers, the create_session   *)
(* calls awaiting session.start(), the _cleanup_session tasks with their   *)
(* done-callbacks and the daemon's garbage collector run as tasks of one   *)
(* event loop; another process may listen on a port.                       *)
(*                                                                         *)
(* manager.py hands the session's name to SilcSession and is_global to     *)
(* registry.add; the model follows manager.py and keeps, of a session, its *)
(* name.  sessions.json is written by append_session_to_json and           *)
(* remove_session_from_json: append or replace on a match of the port or   *)
(* the name, deletion by port.                                             *)
(***************************************************************************)
\* SessionRegistry.name_exists
name_exists(reg, name) == reg.name_index[name] # NoPort

\* SessionRegistry.add, for a name that is not in the index
add(reg, port, name) ==
    [sessions |-> [reg.sessions EXCEPT ![port] = name],
     name_index |-> [reg.name_index EXCEPT ![name] = port]]

\* SessionRegistry.remove
remove(reg, port) ==
    IF reg.sessions[port] = NoName THEN reg
    ELSE [sessions |-> [reg.sessions EXCEPT ![port] = NoName],
          name_index |-> [reg.name_index EXCEPT ![reg.sessions[port]] = NoPort]]

\* what get and get_by_name return when there is no entry (None)
NoEntry == [port |-> NoPort, name |-> NoName]

\* SessionRegistry.get_by_name: the entry as [port, name]
get_by_name(reg, name) ==
    LET port == reg.name_index[name]
    IN  IF port = NoPort \/ reg.sessions[port] = NoName THEN NoEntry
        ELSE [port |-> port, name |-> reg.sessions[port]]

RECURSIVE RemoveAll(_, _)
\* SessionRegistry.cleanup_timeout: remove is called for each port of to_remove
RemoveAll(reg, to_remove) ==
    IF to_remove = <<>> THEN reg
    ELSE RemoveAll(remove(reg, Head(to_remove)), Tail(to_remove))

\* a plausible slip: only the records of the same port are replaced
append_port_only(js, port, name) ==
    Append(SelectSeq(js, LAMBDA e : e.port # port), [port |-> port, name |-> name])

\* append_session_to_json: append, or replace the records of that port or name
append_session_to_json(js, port, name) ==
    Append(SelectSeq(js, LAMBDA e : e.port # port /\ e.name # name),
           [port |-> port, name |-> name])

\* remove_session_from_json: deletion is by port
remove_session_from_json(js, port) == SelectSeq(js, LAMBDA e : e.port # port)

\* the ports bind_port fails on: a socket is listening there
Bound == session_sockets \cup foreign

\* the orders in which a dict may hold the ports of S
Orders(S) ==
    {q \in [1..Cardinality(S) -> S] : \A i, j \in 1..Cardinality(S) : q[i] = q[j] => i = j}

DaemonInit ==
    /\ buffer = NewBuffer(BufSize)
    /\ hist = <<>>
    /\ last = NoOp
    /\ SessIdle
    /\ ApiIdle
    /\ DaemonIdle

\* a plausible slip: the socket is reserved inside the try, so that the handler
\* of a failed bind closes the socket the port's holder listens on
reserve_refused_closes(port) == session_sockets \ {port}

\* self._session_sockets after _reserve_session_socket has raised: the call is
\* made before the try, the except clause with _close_session_socket does not run
reserve_refused(port) == session_sockets

\* create_session answers 400 and leaves everything as it is
Refuse(port) ==
    /\ resp' = [op |-> "create", port |-> port, status |-> 400]
    /\ UNCHANGED <<sessions, servers, session_tasks, hostVars, persistVars, creating,
                   cleanupVars, gc>>

\* POST /sessions with a port and a name (or none), up to "await session.start()".
\* generate_name draws from a vocabulary far larger than the sessions of a daemon:
\* its ten tries find an unused name
CreateBegin(port, req_name) ==
    /\ nreq < MaxCreates
    /\ nreq' = nreq + 1
    /\ IF sessions[port] # NoName
       THEN Refuse(port) /\ UNCHANGED session_sockets
       ELSE IF req_name = Invalid \/ (req_name \in Names /\ name_exists(registry, req_name))
       THEN Refuse(port) /\ UNCHANGED session_sockets
       ELSE \E session_name \in (IF req_name = Auto
                                 THEN {n \in Names : ~name_exists(registry, n)}
                                 ELSE {req_name}) :
                IF port \in Bound
                THEN Refuse(port) /\ session_sockets' = reserve_refused(port)
                ELSE /\ session_sockets' = session_sockets \cup {port}
                     /\ creating' = [creating EXCEPT ![port] = session_name]
                     /\ resp' = [op |-> "create", port |-> port, status |-> 0]
                     /\ UNCHANGED <<sessions, servers, session_tasks, hostVars,
                                    persistVars, cleanupVars, gc>>
    /\ UNCHANGED <<bufVars, sessVars, daemonSide>>

\* create_session after session.start() has returned: the read loop has logged
\* the shell's first output by then
CreateFinish(port) ==
    /\ creating[port] # NoName
    /\ creating' = [creating EXCEPT ![port] = NoName]
    /\ sessions' = [sessions EXCEPT ![port] = creating[port]]
    /\ session_logs' = session_logs \cup {port}
    /\ IF name_exists(registry, creating[port])
       THEN \* registry.add raises ValueError: the except clause closes the socket
            /\ session_sockets' = session_sockets \ {port}
            /\ resp' = [op |-> "create", port |-> port, status |-> 500]
            /\ UNCHANGED <<servers, session_tasks, persistVars, reg_idle>>
       ELSE /\ registry' = add(registry, port, creating[port])
            /\ reg_idle' = [reg_idle EXCEPT ![port] = 0]
            /\ sessions_json' = append_session_to_json(sessions_json, port, creating[port])
            /\ servers' = servers \cup {port}
            /\ session_tasks' = session_tasks \cup {port}
            /\ resp' = [op |-> "create", port |-> port, status |-> 200]
            /\ UNCHANGED session_sockets
    /\ UNCHANGED <<hostVars, cleanupVars, gc, nreq, stopVars>>
    /\ UNCHANGED <<bufVars, sessVars>>

\* create_session when session.start() raises: the except clause closes the socket
CreateStartFails(port) ==
    /\ creating[port] # NoName
    /\ creating' = [creating EXCEPT ![port] = NoName]
    /\ session_sockets' = session_sockets \ {port}
    /\ resp' = [op |-> "create", port |-> port, status |-> 500]
    /\ UNCHANGED <<sessions, servers, session_tasks, hostVars, persistVars, cleanupVars,
                   gc, nreq>>
    /\ UNCHANGED <<bufVars, sessVars, daemonSide>>

\* task.done()
done(t) == task[t].pc \in {"done", "gone"}

\* a _cleanup_session task that was created and has not finished
InFlight(t) == task[t].pc \in {"start", "await_task", "await_close"}

\* the task _ensure_cleanup_task(port) returns
ensured(port) ==
    IF cleanup_tasks[port] # NoTask /\ ~done(cleanup_tasks[port])
    THEN cleanup_tasks[port]
    ELSE ntasks + 1

\* _ensure_cleanup_task
ensure_cleanup_task(port) ==
    IF cleanup_tasks[port] # NoTask /\ ~done(cleanup_tasks[port])
    THEN UNCHANGED cleanupVars
    ELSE /\ ntasks < MaxTasks
         /\ ntasks' = ntasks + 1
         /\ task' = [task EXCEPT ![ntasks + 1] = [port |-> port, pc |-> "start"]]
         /\ cleanup_tasks' = [cleanup_tasks EXCEPT ![port] = ntasks + 1]

\* DELETE /sessions/{port}, up to its await of the cleanup task
CloseSession(port) ==
    /\ IF sessions[port] = NoName
       THEN /\ resp' = [op |-> "close", port |-> port, status |-> 404]
            /\ UNCHANGED cleanupVars
       ELSE /\ ensure_cleanup_task(port)
            /\ resp' = [op |-> "close", port |-> port, status |-> 0]
    /\ UNCHANGED <<mapVars, hostVars, persistVars, creating, gc, nreq>>
    /\ UNCHANGED <<bufVars, sessVars, daemonSide>>

\* _cleanup_session from "session = self.sessions.pop(port, None)" to its next await
\* or its end: the task is at pc when the step is done
CleanupSession(t, port) ==
    IF sessions[port] # NoName
    THEN /\ sessions' = [sessions EXCEPT ![port] = NoName]
         /\ task' = [task EXCEPT ![t].pc = "await_close"]
         /\ UNCHANGED <<persistVars, session_logs>>
    ELSE /\ registry' = remove(registry, port)
         /\ sessions_json' = remove_session_from_json(sessions_json, port)
         /\ session_logs' = session_logs \ {port}
         /\ task' = [task EXCEPT ![t].pc = "done"]
         /\ UNCHANGED sessions

\* a plausible slip: the socket is left open until the cleanup has ended
close_session_socketLater(sockets, port) == sockets

\* _close_session_socket: the socket is popped and closed
close_session_socket(sockets, port) == sockets \ {port}

\* _cleanup_session from its start: the task and server are popped, the socket
\* is closed; with a server task it awaits the cancelled task
CleanupStart(t) ==
    /\ task[t].pc = "start"
    /\ LET port == task[t].port
       IN  /\ session_tasks' = session_tasks \ {port}
           /\ servers' = servers \ {port}
           /\ session_sockets' = close_session_socket(session_sockets, port)
           /\ IF port \in session_tasks
              THEN /\ task' = [task EXCEPT ![t].pc = "await_task"]
                   /\ UNCHANGED <<sessions, persistVars, session_logs>>
              ELSE CleanupSession(t, port)
    /\ UNCHANGED <<hostVars, creating, cleanup_tasks, ntasks, gc, resp, nreq>>
    /\ UNCHANGED <<bufVars, sessVars, reg_idle, stopVars>>

\* _cleanup_session after the wait for the server task (at most 2 s)
CleanupAfterTask(t) ==
    /\ task[t].pc = "await_task"
    /\ CleanupSession(t, task[t].port)
    /\ UNCHANGED <<servers, session_tasks, session_sockets, hostVars, creating,
                   cleanup_tasks, ntasks, gc, resp, nreq>>
    /\ UNCHANGED <<bufVars, sessVars, reg_idle, stopVars>>

\* _cleanup_session after session.close() and _kill_processes_on_port
CleanupAfterClose(t) ==
    /\ task[t].pc = "await_close"
    /\ registry' = remove(registry, task[t].port)
    /\ sessions_json' = remove_session_from_json(sessions_json, task[t].port)
    /\ session_logs' = session_logs \ {task[t].port}
    /\ task' = [task EXCEPT ![t].pc = "done"]
    /\ UNCHANGED <<mapVars, hostVars, creating, cleanup_tasks, ntasks, gc, resp, nreq>>
    /\ UNCHANGED <<bufVars, sessVars, reg_idle, stopVars>>

\* the done-callback of a cleanup task: self._cleanup_tasks.pop(port, None)
CleanupCallback(t) ==
    /\ task[t].pc = "done"
    /\ task' = [task EXCEPT ![t].pc = "gone"]
    /\ cleanup_tasks' = [cleanup_tasks EXCEPT ![task[t].port] = NoTask]
    /\ UNCHANGED <<mapVars, hostVars, persistVars, creating, ntasks, gc, resp, nreq>>
    /\ UNCHANGED <<bufVars, sessVars, daemonSide>>

\* _garbage_collect wakes from sleep(60): cleanup_timeout removes the entries that
\* have been idle for 1800 s, any of them, and returns their ports
GcTick ==
    /\ gc = [pending |-> <<>>, wait |-> NoTask]
    /\ \E idle \in SUBSET {p \in Ports : registry.sessions[p] # NoName} :
           /\ idle # {}
           /\ \E to_remove \in Orders(idle) :
                  /\ registry' = RemoveAll(registry, to_remove)
                  /\ gc' = [pending |-> to_remove, wait |-> NoTask]
    /\ UNCHANGED <<mapVars, hostVars, sessions_json, creating, cleanupVars, resp, nreq>>
    /\ UNCHANGED <<bufVars, sessVars, daemonSide>>

\* _garbage_collect: "await self._ensure_cleanup_task(port)" for the next port
GcEnsure ==
    /\ gc.wait = NoTask
    /\ gc.pending # <<>>
    /\ ensure_cleanup_task(Head(gc.pending))
    /\ gc' = [pending |-> Tail(gc.pending), wait |-> ensured(Head(gc.pending))]
    /\ UNCHANGED <<mapVars, hostVars, persistVars, creating, resp, nreq>>
    /\ UNCHANGED <<bufVars, sessVars, daemonSide>>

\* _garbage_collect wakes once the awaited task is done and its callbacks have run
GcResume ==
    /\ gc.wait # NoTask
    /\ task[gc.wait].pc = "gone"
    /\ gc' = [gc EXCEPT !.wait = NoTask]
    /\ UNCHANGED <<mapVars, hostVars, persistVars, creating, cleanupVars, resp, nreq>>
    /\ UNCHANGED <<bufVars, sessVars, daemonSide>>

\* another process starts to listen on a port
ForeignBind(port) ==
    /\ port \notin Bound
    /\ foreign' = foreign \cup {port}
    /\ UNCHANGED <<extraVars, mapVars, persistVars, creating, cleanupVars, gc, resp, nreq>>
    /\ UNCHANGED <<bufVars, sessVars, daemonSide>>

\* the other process closes its socket
ForeignClose(port) ==
    /\ port \in foreign
    /\ foreign' = foreign \ {port}
    /\ UNCHANGED <<extraVars, mapVars, persistVars, creating, cleanupVars, gc, resp, nreq>>
    /\ UNCHANGED <<bufVars, sessVars, daemonSide>>

DaemonNext ==
    \/ \E port \in Ports, req_name \in Names \cup {Auto, Invalid} : CreateBegin(port, req_name)
    \/ \E port \in Ports : CreateFinish(port)
    \/ \E port \in Ports : CreateStartFails(port)
    \/ \E port \in Ports : CloseSession(port)
    \/ \E t \in Tasks : CleanupStart(t)
    \/ \E t \in Tasks : CleanupAfterTask(t)
    \/ \E t \in Tasks : CleanupAfterClose(t)
    \/ \E t \in Tasks : CleanupCallback(t)
    \/ GcTick
    \/ GcEnsure
    \/ GcResume
    \/ \E port \in Ports : ForeignBind(port)
    \/ \E port \in Ports : ForeignClose(port)

DaemonSpec == DaemonInit /\ [][DaemonNext]_vars

(***************************************************************************)
(* ApiSpec: one request to the API of a session (create_app).  The token   *)
(* of the session, the peer, the credentials and the endpoint are any of   *)
(* a bounded set; the read loop may have ended before the request is       *)
(* served.  Strings are sequences of characters; the scheme of an          *)
(* Authorization header is written with one letter, B or b for Bearer.     *)
(***************************************************************************)
\* longest Authorization header (or token query parameter) of a request
MaxCred == 4
\* longest api_token of a session
MaxToken == 2

SP == " "
CredChars == {SP, "B", "b", "x"}
TokenChars == {SP, "x"}
\* the api_token values a session is created with: create_session passes the
\* request's token on as it is
Tokens == SeqUpTo(TokenChars, MaxToken)
Creds == SeqUpTo(CredChars, MaxCred)
\* request.client: none, or the host of the peer
Peers == {"none", "127.0.0.1", "::ffff:127.0.0.1", "203.0.113.5"}
\* the endpoints that call _check_alive (or get_status) first
Checked == {"status", "run"}
\* the endpoints behind Depends(_require_token)
Gated == Checked \cup {"token", "stream/start"}
Endpoints == Gated \cup {"ws"}

RECURSIVE LStrip(_)
\* str.lstrip
LStrip(s) == IF s = <<>> \/ Head(s) # SP THEN s ELSE LStrip(Tail(s))

RECURSIVE RStrip(_)
\* str.rstrip
RStrip(s) == IF s = <<>> \/ s[Len(s)] # SP THEN s ELSE RStrip(SubSeq(s, 1, Len(s) - 1))

\* str.strip
Strip(s) == RStrip(LStrip(s))

\* str.lower
Lower(s) == [i \in DOMAIN s |-> IF s[i] = "B" THEN "b" ELSE s[i]]

\* s.split(" ", 1)
SplitOnce(s) ==
    LET I == {i \in DOMAIN s : s[i] = SP}
    IN  IF I = {} THEN <<s>>
        ELSE LET i == CHOOSE i \in I : \A j \in I : i <= j
             IN  <<SubSeq(s, 1, i - 1), SubSeq(s, i + 1, Len(s))>>

\* _client_is_local: ip_address(host).is_loopback, or its ipv4_mapped address is
client_is_local(host) ==
    IF host = "none" THEN FALSE
    ELSE host \in {"localhost", "127.0.0.1", "::1", "::ffff:127.0.0.1"}

\* a plausible slip: the loopback exemption is missing
require_tokenNoLocal(token, host, auth_header) ==
    IF token = <<>> THEN 0
    ELSE IF auth_header = <<>> THEN 401
    ELSE LET parts == SplitOnce(Strip(auth_header))
         IN  IF Len(parts) # 2 \/ Lower(parts[1]) # <<"b">> THEN 401
             ELSE IF Strip(parts[2]) # token THEN 403
             ELSE 0

\* _require_token: 0 when it returns, else the status of the HTTPException
require_token(token, host, auth_header) ==
    IF token = <<>> THEN 0
    ELSE IF client_is_local(host) THEN 0
    ELSE IF auth_header = <<>> THEN 401
    ELSE LET parts == SplitOnce(Strip(auth_header))
         IN  IF Len(parts) # 2 \/ Lower(parts[1]) # <<"b">> THEN 401
             ELSE IF Strip(parts[2]) # token THEN 403
             ELSE 0

\* _verify_websocket_token, with the token query parameter
verify_websocket_token(token, host, provided) ==
    \/ token = <<>>
    \/ client_is_local(host)
    \/ provided = token

\* get_status()["alive"]
alive == read_task \in {"running", "cancelled"}

ApiInit ==
    /\ buffer = NewBuffer(BufSize)
    /\ hist = <<>>
    /\ last = NoOp
    /\ SessIdle
    /\ DaemonIdle
    /\ api_token \in Tokens
    /\ \E e \in Endpoints, peer \in Peers, cred \in Creds :
           http = [endpoint |-> e, peer |-> peer, cred |-> cred, status |-> 0,
                   effect |-> "none"]

\* _read_loop ends by itself: pty.read raises an exception that the read of
\* the PTY does not turn into b"" (it catches OSError only)
ReadLoopExit ==
    /\ read_task = "running"
    /\ read_task' = "done"
    /\ UNCHANGED <<bufVars, closed, lockVars, runVars, ptyVars, reader, nclears,
                   sessSide, daemonVars>>

\* one HTTP request: the dependency _require_token, then the endpoint's handler
\* up to its first call into the session
ServeHttp ==
    /\ http.status = 0
    /\ http.endpoint \in Gated
    /\ LET denied == require_token(api_token, http.peer, http.cred)
       IN  IF denied # 0
           THEN /\ http' = [http EXCEPT !.status = denied]
                /\ UNCHANGED idle_time
           ELSE IF http.endpoint \in Checked
           THEN \* get_status sets last_access before alive is looked at
                /\ idle_time' = 0
                /\ http' = IF alive
                           THEN [http EXCEPT !.status = 200, !.effect = http.endpoint]
                           ELSE [http EXCEPT !.status = 410]
           ELSE /\ http' = [http EXCEPT !.status = 200, !.effect = http.endpoint]
                /\ UNCHANGED idle_time
    /\ UNCHANGED <<bufVars, lifeVars, lockVars, runVars, ptyVars, reader, nclears,
                   api_token, wsVars, endVars, daemonVars>>

\* one WebSocket request, up to "session.tui_active = True"
ServeWs ==
    /\ http.status = 0
    /\ http.endpoint = "ws"
    /\ IF verify_websocket_token(api_token, http.peer, http.cred)
       THEN /\ http' = [http EXCEPT !.status = 101, !.effect = "ws"]
            /\ tui_active' = TRUE
            /\ ws' = ws \cup {1}
       ELSE /\ http' = [http EXCEPT !.status = 1008]
            /\ UNCHANGED wsVars
    /\ UNCHANGED <<bufVars, lifeVars, lockVars, runVars, ptyVars, reader, nclears,
                   api_token, endVars, idle_time, daemonVars>>

ApiNext == ReadLoopExit \/ ServeHttp \/ ServeWs

ApiSpec == ApiInit /\ [][ApiNext]_vars

(***************************************************************************)
(* EndSpec: the end of one session.  The handlers that hold the session    *)
(* (the daemon's cleanup, killall) call close() and force_kill(), each     *)
(* call suspended while it waits for the cancelled tasks; WebSocket        *)
(* clients connect and disconnect meanwhile.                               *)
(***************************************************************************)
\* calls of close() and force_kill() one caller makes
MaxEnds == 2
\* WebSocket connections to one session at the same time
NConns == 2

Conns == 1..NConns

\* Task.cancel() on _read_task or _gc_task: a running task is asked to unwind
cancel(t) == IF t \in {"running", "due"} THEN "cancelled" ELSE t

\* close() or force_kill(), from its first line to its first await (of
\* wait_for(task)), or to its end when there is no task to wait for
EndCall(k, op) ==
    /\ closer[k].pc = "idle"
    /\ closer[k].calls < MaxEnds
    /\ IF op = "close" /\ closed
       THEN /\ closer' = [closer EXCEPT ![k].calls = @ + 1]
            /\ UNCHANGED <<lifeVars, tui_active, gc_task, pty_kills>>
       ELSE /\ closed' = TRUE
            /\ tui_active' = IF op = "close" THEN FALSE ELSE tui_active
            /\ read_task' = cancel(read_task)
            /\ gc_task' = cancel(gc_task)
            /\ pty_kills' = pty_kills + 1
            /\ closer' = [closer EXCEPT ![k] =
                             [pc |-> IF read_task = "none" /\ gc_task = "none"
                                     THEN "idle" ELSE "await",
                              op |-> op, calls |-> @.calls + 1]]
    /\ UNCHANGED <<bufVars, lockVars, runVars, ptyVars, reader, nclears, apiVars, ws,
                   idle_time, daemonVars>>

\* _read_loop receives the CancelledError and breaks
ReadLoopUnwind ==
    /\ read_task = "cancelled"
    /\ read_task' = "done"
    /\ UNCHANGED <<bufVars, closed, lockVars, runVars, ptyVars, reader, nclears,
                   sessSide, daemonVars>>

\* the session's _garbage_collect receives the CancelledError in its sleep
GcLoopUnwind ==
    /\ gc_task = "cancelled"
    /\ closer[0].pc = "idle"
    /\ gc_task' = "done"
    /\ UNCHANGED <<bufVars, lifeVars, lockVars, runVars, ptyVars, reader, nclears,
                   apiVars, wsVars, pty_kills, closer, idle_time, daemonVars>>

\* close() or force_kill() after its waits: the tasks it waited for have unwound
\* (the GC loop, when it is the caller, cannot wait for itself)
EndReturn(k) ==
    /\ closer[k].pc = "await"
    /\ read_task # "cancelled" \/ k = 0
    /\ gc_task # "cancelled" \/ k = 0
    /\ read_task' = "none"
    /\ gc_task' = "none"
    /\ closer' = [closer EXCEPT ![k].pc = "idle"]
    /\ UNCHANGED <<bufVars, closed, lockVars, runVars, ptyVars, reader, nclears,
                   apiVars, wsVars, pty_kills, idle_time, daemonVars>>

\* websocket_endpoint from the token check to "session.tui_active = True"
WsConnect(w) ==
    /\ w \notin ws
    /\ verify_websocket_token(api_token, "127.0.0.1", <<>>)
    /\ ws' = ws \cup {w}
    /\ tui_active' = TRUE
    /\ UNCHANGED <<bufVars, lifeVars, lockVars, runVars, ptyVars, reader, nclears,
                   apiVars, endVars, idle_time, daemonVars>>

\* websocket_endpoint from WebSocketDisconnect on: "session.tui_active = False"
WsDisconnect(w) ==
    /\ w \in ws
    /\ ws' = ws \ {w}
    /\ tui_active' = FALSE
    /\ UNCHANGED <<bufVars, lifeVars, lockVars, runVars, ptyVars, reader, nclears,
                   apiVars, endVars, idle_time, daemonVars>>

EndNext ==
    \/ \E k \in Enders \ {0}, op \in {"close", "force_kill"} : EndCall(k, op)
    \/ \E k \in Enders \ {0} : EndReturn(k)
    \/ ReadLoopUnwind
    \/ GcLoopUnwind
    \/ ReadLoopExit
    \/ \E w \in Conns : WsConnect(w)
    \/ \E w \in Conns : WsDisconnect(w)

EndSpec == SessInit /\ [][EndNext]_vars


(***************************************************************************)
(* The idle timeout of a session (GcSpec): time passes in steps of one     *)
(* sleep(60) of the GC loop, API calls refresh last_access, run_command    *)
(* holds the run lock, WebSocket clients come and go, and the GC loop      *)
(* wakes once per interval.                                                *)
(***************************************************************************)
\* the idle limit of 1800 s, counted in GC intervals
IdleTimeout == 2
\* idle times above the limit are all alike
MaxIdle == IdleTimeout + 1

\* an interval of 60 s passes: every last_access is one interval older, and the
\* sleep(60) of a running session GC loop is over
Tick ==
    /\ gc_task # "due"
    /\ idle_time' = Min(idle_time + 1, MaxIdle)
    /\ reg_idle' = [p \in Ports |-> Min(reg_idle[p] + 1, MaxIdle)]
    /\ gc_task' = IF gc_task = "running" THEN "due" ELSE gc_task
    /\ UNCHANGED <<bufVars, lifeVars, lockVars, runVars, ptyVars, reader, nclears,
                   apiVars, wsVars, pty_kills, closer>>
    /\ UNCHANGED <<mapVars, hostVars, persistVars, creating, cleanupVars, gc, resp, nreq,
                   session_logs, stopVars>>

\* get_status or get_output, called by a read-path handler: last_access = now
Touch ==
    /\ idle_time > 0
    /\ idle_time' = 0
    /\ UNCHANGED <<bufVars, lifeVars, lockVars, runVars, ptyVars, reader, nclears,
                   apiVars, wsVars, endVars, daemonVars>>

\* a plausible slip: the run lock is not looked at
gc_idleNoLock == idle_time > IdleTimeout /\ ~tui_active

\* the condition of _garbage_collect for closing the session
gc_idle == idle_time > IdleTimeout /\ ~tui_active /\ ~locked

\* _garbage_collect of the session after its sleep(60): close() and break, or
\* rotate_logs() and the next sleep
SessionGc ==
    /\ gc_task = "due"
    /\ IF gc_idle
       THEN EndCall(0, "close")
       ELSE /\ gc_task' = "running"
            /\ UNCHANGED <<bufVars, lifeVars, lockVars, runVars, ptyVars, reader, nclears,
                           apiVars, wsVars, pty_kills, closer, idle_time, daemonVars>>

GcNext ==
    \/ Tick
    \/ Touch
    \/ SessionGc
    \/ EndReturn(0)
    \/ ReadLoopUnwind
    \/ \E w \in Conns : WsConnect(w)
    \/ \E w \in Conns : WsDisconnect(w)
    \/ \E c \in Callers : RunCall(c)
    \/ \E c \in Callers : RunAfterWrite(c)
    \/ \E c \in Callers : RunPoll(c)

GcSpec == SessInit /\ [][GcNext]_vars

(***************************************************************************)
(* The daemon's idle timeout (ReapSpec): the daemon of DaemonSpec with the *)
(* session of GcSpec on one of its ports, followed from its creation to    *)
(* its removal from the daemon's map.  The registry entry of a port has a  *)
(* last_access of its own, which SessionRegistry.get refreshes.            *)
(***************************************************************************)
\* the port of the session whose state is followed
SessPort == 1

\* the daemon holds the session in self.sessions
Held == sessions[SessPort] # NoName

\* the session's uvicorn server is in self.servers: its API is served
Serving == SessPort \in servers

\* SessionRegistry.cleanup_timeout: the ports whose entry is older than the limit
cleanup_timeout(timeout) ==
    {p \in Ports : registry.sessions[p] # NoName /\ reg_idle[p] > timeout}

\* the daemon's _garbage_collect wakes from sleep(60): cleanup_timeout(1800)
GcTimed ==
    /\ GcTick
    /\ {gc'.pending[i] : i \in 1..Len(gc'.pending)} = cleanup_timeout(IdleTimeout)

\* GET /resolve/{name}: registry.get_by_name calls update_access on the entry
Resolve(name) ==
    LET entry == get_by_name(registry, name)
    IN  /\ IF entry = NoEntry
           THEN /\ resp' = [op |-> "resolve", port |-> NoPort, status |-> 404]
                /\ UNCHANGED reg_idle
           ELSE /\ resp' = [op |-> "resolve", port |-> entry.port, status |-> 200]
                /\ reg_idle' = [reg_idle EXCEPT ![entry.port] = 0]
        /\ UNCHANGED <<mapVars, hostVars, persistVars, creating, cleanupVars, gc, nreq,
                       session_logs, stopVars>>
        /\ UNCHANGED <<bufVars, sessVars>>

\* GET /sessions with the followed session as the registry's entry: get_status
\* sets the session's last_access, and a session that is missing from the map or
\* not alive gets a cleanup task
ListSessions ==
    /\ registry.sessions[SessPort] # NoName
    /\ IF Held
       THEN /\ idle_time' = 0
            /\ IF alive THEN UNCHANGED cleanupVars ELSE ensure_cleanup_task(SessPort)
       ELSE /\ ensure_cleanup_task(SessPort)
            /\ UNCHANGED idle_time
    /\ resp' = [op |-> "list", port |-> NoPort, status |-> 200]
    /\ UNCHANGED <<mapVars, hostVars, persistVars, creating, gc, nreq, daemonSide>>
    /\ UNCHANGED <<bufVars, lifeVars, lockVars, runVars, ptyVars, reader, nclears,
                   apiVars, wsVars, endVars>>

ReapNext ==
    \/ \E req_name \in Names \cup {Auto} : nreq = 0 /\ CreateBegin(SessPort, req_name)
    \/ CreateFinish(SessPort)
    \/ Held /\ Tick
    \/ Serving /\ Touch
    \/ \E name \in Names : Resolve(name)
    \/ ListSessions
    \/ Held /\ SessionGc
    \/ EndReturn(0)
    \/ ReadLoopUnwind
    \/ Serving /\ WsConnect(1)
    \/ WsDisconnect(1)
    \/ Serving /\ RunCall(1)
    \/ RunAfterWrite(1)
    \/ RunPoll(1)
    \/ GcTimed
    \/ GcEnsure
    \/ GcResume
    \/ \E t \in Tasks : CleanupStart(t)
    \/ \E t \in Tasks : CleanupAfterTask(t)
    \/ \E t \in Tasks : CleanupAfterClose(t)
    \/ \E t \in Tasks : CleanupCallback(t)

ReapSpec == DaemonInit /\ [][ReapNext]_vars

\* the event loop runs every task that can run, and time does not stop
ReapFairness ==
    /\ WF_vars(Held /\ Tick)
    /\ WF_vars(Held /\ SessionGc)
    /\ WF_vars(EndReturn(0))
    /\ WF_vars(ReadLoopUnwind)
    /\ WF_vars(GcTimed)
    /\ WF_vars(GcEnsure)
    /\ WF_vars(GcResume)
    /\ \A t \in Tasks : /\ WF_vars(CleanupStart(t))
                        /\ WF_vars(CleanupAfterTask(t))
                        /\ WF_vars(CleanupAfterClose(t))
                        /\ WF_vars(CleanupCallback(t))

ReapFairSpec == ReapSpec /\ ReapFairness

(***************************************************************************)
(* Stopping and restarting the daemon (TeardownSpec): POST /shutdown,      *)
(* POST /killall or a signal; the handler and _watch_shutdown await the    *)
(* cleanup task of each session under wait_for, which cancels the task     *)
(* when the time is up; the process exits once the daemon's server has     *)
(* been told to; the next start resurrects what sessions.json holds.       *)
(***************************************************************************)
StopOps == {"shutdown", "killall", "signal"}

\* the sessions.json records of a port
Records(port) == {i \in 1..Len(sessions_json) : sessions_json[i].port = port}

\* list(self.sessions.keys())
SessionKeys == {p \in Ports : sessions[p] # NoName}

\* shutdown or killall up to its first await, or the signal handler and the
\* wake-up of _watch_shutdown: the ports to clean are listed
Stop(op) ==
    /\ up
    /\ stopper = NoStop
    /\ \E ports \in Orders(SessionKeys) :
           stopper' = [op |-> op, ports |-> ports, wait |-> NoTask,
                       phase |-> IF op = "signal" THEN "watch" ELSE "loop"]
    /\ stopped_live' = {[port |-> p, name |-> sessions[p]] :
                            p \in {q \in SessionKeys : Records(q) # {}}}
    /\ UNCHANGED <<mapVars, hostVars, persistVars, creating, cleanupVars, gc, resp, nreq,
                   session_logs, reg_idle, up>>
    /\ UNCHANGED <<bufVars, sessVars>>

\* the loop of shutdown, killall or _watch_shutdown reaches its wait_for of
\* _ensure_cleanup_task(port) (killall has awaited session.force_kill() first)
StopEnsure ==
    /\ up
    /\ stopper.phase \in {"loop", "watch"}
    /\ stopper.wait = NoTask
    /\ stopper.ports # <<>>
    /\ ensure_cleanup_task(Head(stopper.ports))
    /\ stopper' = [stopper EXCEPT !.ports = Tail(@), !.wait = ensured(Head(stopper.ports))]
    /\ UNCHANGED <<mapVars, hostVars, persistVars, creating, gc, resp, nreq,
                   session_logs, reg_idle, up, stopped_live>>
    /\ UNCHANGED <<bufVars, sessVars>>

\* the awaited cleanup task is done and its callbacks have run: the loop goes on
StopResume ==
    /\ up
    /\ stopper.wait # NoTask
    /\ task[stopper.wait].pc = "gone"
    /\ stopper' = [stopper EXCEPT !.wait = NoTask]
    /\ UNCHANGED <<mapVars, hostVars, persistVars, creating, cleanupVars, gc, resp, nreq,
                   session_logs, reg_idle, up, stopped_live>>
    /\ UNCHANGED <<bufVars, sessVars>>

\* a loop without "except asyncio.TimeoutError": the handler ends at the timeout
after_timeoutUncaught(s) ==
    [s EXCEPT !.wait = NoTask, !.ports = <<>>, !.phase = "aborted"]

\* "except asyncio.TimeoutError" of the loops: killall goes on with the next
\* port; the 30 s of shutdown and _watch_shutdown are used up, the loop breaks
after_timeout(s) ==
    [s EXCEPT !.wait = NoTask,
              !.ports = IF s.op = "killall" /\ s.phase = "loop" THEN @ ELSE <<>>]

\* the wait_for of the loop times out while the cleanup task awaits
\* session.close() or _kill_processes_on_port: wait_for cancels the task, and the
\* CancelledError, which is no Exception, leaves _cleanup_session.  killall goes
\* on with the next port; the 30 s of shutdown and _watch_shutdown are used up
StopTimeout ==
    /\ up
    /\ stopper.wait # NoTask
    /\ task[stopper.wait].pc = "await_close"
    /\ task' = [task EXCEPT ![stopper.wait].pc = "done"]
    /\ stopper' = after_timeout(stopper)
    /\ UNCHANGED <<mapVars, hostVars, persistVars, creating, cleanup_tasks, ntasks, gc, resp,
                   nreq, session_logs, reg_idle, up, stopped_live>>
    /\ UNCHANGED <<bufVars, sessVars>>

\* shutdown or killall after its loop: the shutdown event is set, the daemon's
\* server is told to exit, and _watch_shutdown lists the sessions that are left
StopFinish ==
    /\ up
    /\ stopper.phase = "loop"
    /\ stopper.wait = NoTask
    /\ stopper.ports = <<>>
    /\ \E ports \in Orders(SessionKeys) :
           stopper' = [stopper EXCEPT !.phase = "watch", !.ports = ports]
    /\ UNCHANGED <<mapVars, hostVars, persistVars, creating, cleanupVars, gc, resp, nreq,
                   session_logs, reg_idle, up, stopped_live>>
    /\ UNCHANGED <<bufVars, sessVars>>

\* the daemon's server has been told to exit: serve() returns, the finally of start
\* cancels _watch_shutdown and removes the PID file, and the process ends,
\* whatever the tasks were doing
Exit ==
    /\ up
    /\ stopper.phase = "watch"
    /\ up' = FALSE
    /\ pidfile' = NoPid
    /\ starter' = [starter EXCEPT ![DaemonPid] = "off"]
    /\ daemon_port' = NoPid
    /\ UNCHANGED <<mapVars, foreign, portVars, dedupVars, streamVars, res, auxVars, persistVars, creating, cleanupVars, gc,
                   resp, nreq, session_logs, reg_idle, stopper, stopped_live>>
    /\ UNCHANGED <<bufVars, sessVars>>

RECURSIVE Resurrect(_, _, _)
\* the loop of _resurrect_sessions over the records read from sessions.json, for
\* the records whose session.start() succeeds: the session is put in the map and
\* the registry, and its record is appended again
Resurrect(d, entries, failed) ==
    IF entries = <<>> THEN d
    ELSE LET e == Head(entries)
         IN  IF e.port \in failed \/ name_exists(d.registry, e.name)
             THEN Resurrect(d, Tail(entries), failed)
             ELSE Resurrect([sessions |-> [d.sessions EXCEPT ![e.port] = e.name],
                             registry |-> add(d.registry, e.port, e.name),
                             json |-> append_session_to_json(d.json, e.port, e.name)],
                            Tail(entries), failed)

\* the daemon is started again: start() with its _resurrect_sessions
Restart ==
    /\ ~up
    /\ stopper.op \in StopOps
    /\ \E failed \in SUBSET Ports :
           LET d == Resurrect([sessions |-> [p \in Ports |-> NoName],
                               registry |-> [sessions |-> [p \in Ports |-> NoName],
                                             name_index |-> [n \in Names |-> NoPort]],
                               json |-> sessions_json],
                              sessions_json, failed)
           IN  /\ sessions' = d.sessions
               /\ registry' = d.registry
               /\ sessions_json' = d.json
               /\ servers' = {p \in Ports : d.sessions[p] # NoName}
               /\ session_tasks' = {p \in Ports : d.sessions[p] # NoName}
               /\ session_sockets' = {p \in Ports : d.sessions[p] # NoName}
               /\ session_logs' = session_logs \cup {p \in Ports : d.sessions[p] # NoName}
    /\ creating' = [p \in Ports |-> NoName]
    /\ cleanup_tasks' = [p \in Ports |-> NoTask]
    /\ task' = [t \in Tasks |-> IF task[t] = NoTaskRec THEN NoTaskRec
                                ELSE [task[t] EXCEPT !.pc = "gone"]]
    /\ reg_idle' = [p \in Ports |-> 0]
    /\ resp' = NoResp
    /\ stopper' = [NoStop EXCEPT !.op = "restarted"]
    /\ up' = TRUE
    /\ pidfile' = DaemonPid
    /\ starter' = [starter EXCEPT ![DaemonPid] = "serving"]
    /\ daemon_port' = DaemonPid
    /\ UNCHANGED <<foreign, portVars, dedupVars, streamVars, res, auxVars, ntasks, gc, nreq, stopped_live>>
    /\ UNCHANGED <<bufVars, sessVars>>

TeardownNext ==
    \/ \E port \in Ports, req_name \in Names \cup {Auto} :
           up /\ stopper = NoStop /\ CreateBegin(port, req_name)
    \/ \E port \in Ports : up /\ CreateFinish(port)
    \/ \E op \in StopOps : Stop(op)
    \/ StopEnsure
    \/ StopResume
    \/ StopTimeout
    \/ StopFinish
    \/ Exit
    \/ Restart
    \/ \E t \in Tasks : up /\ CleanupStart(t)
    \/ \E t \in Tasks : up /\ CleanupAfterTask(t)
    \/ \E t \in Tasks : up /\ CleanupAfterClose(t)
    \/ \E t \in Tasks : up /\ CleanupCallback(t)

TeardownSpec == DaemonInit /\ [][TeardownNext]_vars

\* a daemon that serves: start has written the PID file and bound DAEMON_PORT
StopInit ==
    /\ buffer = NewBuffer(BufSize)
    /\ hist = <<>>
    /\ last = NoOp
    /\ SessIdle
    /\ ApiIdle
    /\ DaemonFresh
    /\ UtilIdle
    /\ ConstIdle
    /\ AuxIdle
    /\ pidfile = DaemonPid
    /\ starter = [p \in Procs |-> IF p = DaemonPid THEN "serving" ELSE "off"]
    /\ daemon_port = DaemonPid

\* _cleanup_session after session.close(): the entry leaves the registry, then
\* the rewrite of sessions.json raises and the task ends with that exception,
\* which the loop that awaits the task logs ("except Exception")
CleanupRaises(t) ==
    /\ task[t].pc = "await_close"
    /\ registry' = remove(registry, task[t].port)
    /\ task' = [task EXCEPT ![t].pc = "done"]
    /\ UNCHANGED <<mapVars, hostVars, sessions_json, creating, cleanup_tasks, ntasks, gc,
                   resp, nreq>>
    /\ UNCHANGED <<bufVars, sessVars, daemonSide>>

StopNext ==
    \/ TeardownNext
    \/ \E t \in Tasks : up /\ CleanupRaises(t)

StopSpec == StopInit /\ [][StopNext]_vars

\* the event loop runs every handler and task that is ready, every wait_for
\* whose awaitable has not finished times out, and a server told to exit does;
\* session.close() and _kill_processes_on_port need never return
StopFairness ==
    /\ WF_vars(StopEnsure)
    /\ WF_vars(StopResume)
    /\ WF_vars(StopTimeout)
    /\ WF_vars(StopFinish)
    /\ WF_vars(Exit)
    /\ \A t \in Tasks : WF_vars(up /\ CleanupStart(t))
    /\ \A t \in Tasks : WF_vars(up /\ CleanupAfterTask(t))
    /\ \A t \in Tasks : WF_vars(up /\ CleanupCallback(t))

StopFairSpec == StopSpec /\ StopFairness

(***************************************************************************)
(* sessions.json on its own (JsonSpec): any sequence of                    *)
(* append_session_to_json and remove_session_from_json calls on a file     *)
(* that starts empty.                                                      *)
(***************************************************************************)
\* the ports and the names of the records written
MaxJsonKeys == 4

JsonKeys == 1..MaxJsonKeys

\* append_session_to_json(entry)
JsonAppend(port, name) ==
    /\ sessions_json' = append_session_to_json(sessions_json, port, name)
    /\ UNCHANGED <<mapVars, hostVars, registry, creating, cleanupVars, gc, resp, nreq,
                   daemonSide>>
    /\ UNCHANGED <<bufVars, sessVars>>

\* remove_session_from_json(port), for a port that has a record (for another
\* port the file is rewritten as it was)
JsonRemove(port) ==
    /\ \E i \in 1..Len(sessions_json) : sessions_json[i].port = port
    /\ sessions_json' = remove_session_from_json(sessions_json, port)
    /\ UNCHANGED <<mapVars, hostVars, registry, creating, cleanupVars, gc, resp, nreq,
                   daemonSide>>
    /\ UNCHANGED <<bufVars, sessVars>>

JsonNext ==
    \/ \E port \in JsonKeys, name \in JsonKeys : JsonAppend(port, name)
    \/ \E port \in JsonKeys : JsonRemove(port)

JsonSpec == DaemonInit /\ [][JsonNext]_vars

(***************************************************************************)
(* PortSpec: find_available_port on a host whose ports other processes     *)
(* bind and release.  The range and the number of attempts are scaled      *)
(* down; the default range [20000, 21000) has 1000 ports and               *)
(* config.ports.max_attempts is 10.                                        *)
(***************************************************************************)
\* the ports of the range, and one past its end
MaxRange == 5
\* config.ports.max_attempts
MaxAttempts == 3

PortRange == 1..MaxRange

\* the loop of find_available_port from `port` on, after `attempts` attempts;
\* NoPort stands for the RuntimeError
RECURSIVE try_ports(_, _, _, _, _)
try_ports(occupied, port, end, attempts, max_attempts) ==
    IF port >= end \/ attempts >= max_attempts THEN NoPort
    ELSE IF port \notin occupied THEN port
    ELSE try_ports(occupied, port + 1, end, attempts + 1, max_attempts)

\* find_available_port(start, end) with the attempts of the configuration
find_available_port(occupied, start, end) ==
    try_ports(occupied, start, end, 0, MaxAttempts)

\* a call of find_available_port(start, end)
FindPort(start, end) ==
    /\ found' = [start |-> start, end |-> end,
                 port |-> find_available_port(Bound, start, end)]
    /\ UNCHANGED <<foreign, dedupVars, streamVars, pidVars, res, auxVars>>
    /\ UNCHANGED <<mapVars, persistVars, creating, cleanupVars, gc, resp, nreq>>
    /\ UNCHANGED <<bufVars, sessVars, daemonSide>>

PortNext ==
    \/ \E start \in PortRange, end \in 1..(MaxRange + 1) : FindPort(start, end)
    \/ \E port \in PortRange : ForeignBind(port)
    \/ \E port \in PortRange : ForeignClose(port)

PortSpec == DaemonInit /\ [][PortNext]_vars

(***************************************************************************)
(* DedupSpec: one LineDeduplicator and the compute_diff calls made on it.  *)
(* A line is a number: 2n and 2n + 1 are two spellings (case, spacing,     *)
(* colour) of the text n, and the text 0 is empty.  The texts 2k and       *)
(* 2k + 1 are close enough for the sequence matcher, other pairs are not.  *)
(***************************************************************************)
\* window_size (2000 by default)
WindowSize == 2
\* the largest line
MaxLine == 11

Lines == 0..MaxLine

\* self._cache_max_size
cache_max_size == WindowSize * 2

\* normalize_line: ANSI codes stripped, whitespace collapsed, lowercase
normalize_line(line) == line \div 2

\* matcher.ratio() >= self.similarity_threshold, after the length check
ratio_ok(norm1, norm2) == norm1 \div 2 = norm2 \div 2

\* is_similar
is_similar(line1, line2) ==
    LET norm1 == normalize_line(line1)
        norm2 == normalize_line(line2)
    IN  IF norm1 = 0 \/ norm2 = 0 THEN norm1 = norm2
        ELSE ratio_ok(norm1, norm2)

\* _update_cache: the cache afterwards
update_cache(cache, existing_lines) ==
    LET kept == IF Cardinality(cache) > cache_max_size THEN {} ELSE cache
        lines_to_cache == LastN(existing_lines, WindowSize)
    IN  kept \cup ({normalize_line(lines_to_cache[i]) : i \in DOMAIN lines_to_cache} \ {0})

\* _is_fuzzy_match
is_fuzzy_match(line, existing_lines) ==
    LET recent_lines == LastN(existing_lines, WindowSize)
    IN  \E i \in DOMAIN recent_lines : is_similar(line, recent_lines[i])

\* compute_diff: the cache afterwards and the lines returned
compute_diff(cache, existing_lines, new_lines) ==
    IF new_lines = <<>> THEN [cache |-> cache, diff |-> <<>>]
    ELSE LET cache1 == update_cache(cache, existing_lines)
             novel_lines == SelectSeq(new_lines, LAMBDA line :
                                normalize_line(line) # 0 /\ normalize_line(line) \notin cache1)
         IN  [cache |-> cache1,
              diff |-> IF existing_lines = <<>> \/ novel_lines = <<>> THEN novel_lines
                       ELSE SelectSeq(novel_lines, LAMBDA line :
                                ~is_fuzzy_match(line, existing_lines))]

\* a call of compute_diff(existing_lines, new_lines)
ComputeDiff(existing_lines, new_lines) ==
    LET r == compute_diff(exact_cache, existing_lines, new_lines)
    IN  /\ exact_cache' = r.cache
        /\ diff' = r.diff
        /\ UNCHANGED <<foreign, portVars, streamVars, pidVars, res, auxVars>>
        /\ UNCHANGED <<mapVars, persistVars, creating, cleanupVars, gc, resp, nreq>>
        /\ UNCHANGED <<bufVars, sessVars, daemonSide>>

\* reset_cache
ResetCache ==
    /\ exact_cache' = {}
    /\ UNCHANGED <<foreign, portVars, diff, streamVars, pidVars, res, auxVars>>
    /\ UNCHANGED <<mapVars, persistVars, creating, cleanupVars, gc, resp, nreq>>
    /\ UNCHANGED <<bufVars, sessVars, daemonSide>>

DedupNext ==
    \/ \E existing_lines \in SeqUpTo(Lines, WindowSize + 1), new_lines \in SeqUpTo(Lines, 1) :
           ComputeDiff(existing_lines, new_lines)
    \/ ResetCache

DedupSpec == DaemonInit /\ [][DedupNext]_vars

(***************************************************************************)
(* StreamSpec: the StreamingService of one session under start_stream and  *)
(* stop_stream requests for render-mode streams.  Every handler runs up to *)
(* its first suspension in one step of the event loop; stop_stream         *)
(* suspends in 'await task' unless the task is done already.  A task that  *)
(* was cancelled ends at its next step, and the calls waiting for it are   *)
(* resumed one after the other, in the order they began to wait, with no   *)
(* other handler in between.                                               *)
(***************************************************************************)
\* the next task to be created, NoTask when MaxStreamTasks were
NextStreamTask ==
    IF \A t \in StreamTasks : stream_task[t].pc # "none" THEN NoTask
    ELSE CHOOSE t \in StreamTasks :
             /\ stream_task[t].pc = "none"
             /\ \A u \in StreamTasks : u < t => stream_task[u].pc # "none"

\* config.filename in self.active_streams
is_active(streams, filename) == streams[filename] # NoTask

\* start_stream(config) with config.mode render
StartStream(filename) ==
    IF is_active(active_streams, filename)
    THEN /\ sret' = [op |-> "start", file |-> filename, task |-> active_streams[filename],
                     result |-> "rejected"]
         /\ UNCHANGED <<exact_cache, active_streams, stream_task>>
    ELSE /\ NextStreamTask # NoTask
         /\ exact_cache' = {}
         /\ stream_task' = [stream_task EXCEPT ![NextStreamTask] =
                                [file |-> filename, pc |-> "running"]]
         /\ active_streams' = [active_streams EXCEPT ![filename] = NextStreamTask]
         /\ sret' = [op |-> "start", file |-> filename, task |-> NextStreamTask,
                     result |-> "started"]

StartStreamCall(filename) ==
    /\ StartStream(filename)
    /\ UNCHANGED <<foreign, portVars, diff, waiting, wrote, pidVars, res, auxVars>>
    /\ UNCHANGED <<mapVars, persistVars, creating, cleanupVars, gc, resp, nreq>>
    /\ UNCHANGED <<bufVars, sessVars, daemonSide>>

\* stop_stream(filename) up to 'await task'; a task that is done is not waited for
StopStreamCall(filename) ==
    LET t == active_streams[filename]
    IN  /\ IF t = NoTask
           THEN /\ sret' = [op |-> "stop", file |-> filename, task |-> NoTask,
                            result |-> "false"]
                /\ UNCHANGED <<active_streams, stream_task, waiting>>
           ELSE IF stream_task[t].pc = "done"
           THEN /\ active_streams' = [active_streams EXCEPT ![filename] = NoTask]
                /\ sret' = [op |-> "stop", file |-> filename, task |-> t, result |-> "true"]
                /\ UNCHANGED <<stream_task, waiting>>
           ELSE /\ Len(waiting) < MaxWaiting
                /\ stream_task' = [stream_task EXCEPT ![t].pc = "cancelling"]
                /\ waiting' = Append(waiting, [task |-> t, file |-> filename])
                /\ UNCHANGED <<active_streams, sret>>
        /\ UNCHANGED <<foreign, portVars, dedupVars, wrote, pidVars, res, auxVars>>
        /\ UNCHANGED <<mapVars, persistVars, creating, cleanupVars, gc, resp, nreq>>
        /\ UNCHANGED <<bufVars, sessVars, daemonSide>>

\* one round of _stream_render_task: the file is replaced
StreamWrite(t) ==
    /\ stream_task[t].pc = "running"
    /\ wrote' = [file |-> stream_task[t].file, task |-> t]
    /\ UNCHANGED <<foreign, portVars, dedupVars, active_streams, stream_task, waiting, sret, pidVars, res, auxVars>>
    /\ UNCHANGED <<mapVars, persistVars, creating, cleanupVars, gc, resp, nreq>>
    /\ UNCHANGED <<bufVars, sessVars, daemonSide>>

\* the task receives its CancelledError and ends
StreamTaskEnd(t) ==
    /\ stream_task[t].pc = "cancelling"
    /\ stream_task' = [stream_task EXCEPT ![t].pc = "done"]
    /\ UNCHANGED <<foreign, portVars, dedupVars, active_streams, waiting, sret, wrote, pidVars, res, auxVars>>
    /\ UNCHANGED <<mapVars, persistVars, creating, cleanupVars, gc, resp, nreq>>
    /\ UNCHANGED <<bufVars, sessVars, daemonSide>>

\* stop_stream after 'await task', for the calls `stops` one after the other:
\* 'del self.active_streams[filename]' raises KeyError when the key is gone
RECURSIVE ResumeStops(_, _, _)
ResumeStops(streams, last_ret, stops) ==
    IF stops = <<>> THEN [streams |-> streams, ret |-> last_ret]
    ELSE LET w == Head(stops)
         IN  IF streams[w.file] = NoTask
             THEN ResumeStops(streams,
                              [op |-> "stop", file |-> w.file, task |-> w.task,
                               result |-> "KeyError"], Tail(stops))
             ELSE ResumeStops([streams EXCEPT ![w.file] = NoTask],
                              [op |-> "stop", file |-> w.file, task |-> w.task,
                               result |-> "true"], Tail(stops))

\* the calls waiting for the task `t`, which is done, are resumed
StopStreamResume(t) ==
    LET stops == SelectSeq(waiting, LAMBDA w : w.task = t)
        r == ResumeStops(active_streams, sret, stops)
    IN  /\ stream_task[t].pc = "done"
        /\ stops # <<>>
        /\ active_streams' = r.streams
        /\ sret' = r.ret
        /\ waiting' = SelectSeq(waiting, LAMBDA w : w.task # t)
        /\ UNCHANGED <<foreign, portVars, dedupVars, stream_task, wrote, pidVars, res, auxVars>>
        /\ UNCHANGED <<mapVars, persistVars, creating, cleanupVars, gc, resp, nreq>>
        /\ UNCHANGED <<bufVars, sessVars, daemonSide>>

StreamNext ==
    \/ \E filename \in Files : StartStreamCall(filename)
    \/ \E filename \in Files : StopStreamCall(filename)
    \/ \E t \in StreamTasks : StreamWrite(t)
    \/ \E t \in StreamTasks : StreamTaskEnd(t)
    \/ \E t \in StreamTasks : StopStreamResume(t)

StreamSpec == DaemonInit /\ [][StreamNext]_vars

(***************************************************************************)
(* PidSpec: daemon processes started on one host, with the hard exit       *)
(* enabled.  Each process runs SilcDaemon.start; the steps of different    *)
(* processes interleave freely, and a process may be killed at any point.  *)
(***************************************************************************)
\* psutil.Process(pid).is_running(): NoSuchProcess counts as not running
is_running(pid) == starter[pid] # "off"

\* start, up to the check of the PID file
StartCheck(p) ==
    /\ starter[p] = "off"
    /\ starter' = [starter EXCEPT ![p] =
                       IF pidfile # NoPid /\ (pidfile = p \/ is_running(pidfile))
                       THEN "aborted" ELSE "checked"]
    /\ UNCHANGED <<pidfile, daemon_port>>
    /\ UNCHANGED <<foreign, portVars, dedupVars, streamVars, res, auxVars>>
    /\ UNCHANGED <<mapVars, persistVars, creating, cleanupVars, gc, resp, nreq>>
    /\ UNCHANGED <<bufVars, sessVars, daemonSide>>

\* the RuntimeError of start ends the process
StartAbort(p) ==
    /\ starter[p] = "aborted"
    /\ starter' = [starter EXCEPT ![p] = "off"]
    /\ UNCHANGED <<pidfile, daemon_port>>
    /\ UNCHANGED <<foreign, portVars, dedupVars, streamVars, res, auxVars>>
    /\ UNCHANGED <<mapVars, persistVars, creating, cleanupVars, gc, resp, nreq>>
    /\ UNCHANGED <<bufVars, sessVars, daemonSide>>

\* write_pidfile(os.getpid()), and start up to the daemon server
StartWrite(p) ==
    /\ starter[p] = "checked"
    /\ pidfile' = p
    /\ starter' = [starter EXCEPT ![p] = "written"]
    /\ UNCHANGED daemon_port
    /\ UNCHANGED <<foreign, portVars, dedupVars, streamVars, res, auxVars>>
    /\ UNCHANGED <<mapVars, persistVars, creating, cleanupVars, gc, resp, nreq>>
    /\ UNCHANGED <<bufVars, sessVars, daemonSide>>

\* 'await self._daemon_server.serve()' binds DAEMON_PORT; when the port is
\* taken it ends at once and the finally of start runs
StartServe(p) ==
    /\ starter[p] = "written"
    /\ IF daemon_port = NoPid
       THEN /\ daemon_port' = p
            /\ starter' = [starter EXCEPT ![p] = "serving"]
            /\ UNCHANGED pidfile
       ELSE /\ pidfile' = NoPid
            /\ starter' = [starter EXCEPT ![p] = "off"]
            /\ UNCHANGED daemon_port
    /\ UNCHANGED <<foreign, portVars, dedupVars, streamVars, res, auxVars>>
    /\ UNCHANGED <<mapVars, persistVars, creating, cleanupVars, gc, resp, nreq>>
    /\ UNCHANGED <<bufVars, sessVars, daemonSide>>

\* the daemon server returns: the finally of start removes the PID file
ServeExit(p) ==
    /\ starter[p] = "serving"
    /\ daemon_port' = NoPid
    /\ pidfile' = NoPid
    /\ starter' = [starter EXCEPT ![p] = "off"]
    /\ UNCHANGED <<foreign, portVars, dedupVars, streamVars, res, auxVars>>
    /\ UNCHANGED <<mapVars, persistVars, creating, cleanupVars, gc, resp, nreq>>
    /\ UNCHANGED <<bufVars, sessVars, daemonSide>>

\* the process is killed: nothing is cleaned up
Killed(p) ==
    /\ starter[p] \in {"checked", "written", "serving"}
    /\ starter' = [starter EXCEPT ![p] = "off"]
    /\ daemon_port' = IF daemon_port = p THEN NoPid ELSE daemon_port
    /\ UNCHANGED pidfile
    /\ UNCHANGED <<foreign, portVars, dedupVars, streamVars, res, auxVars>>
    /\ UNCHANGED <<mapVars, persistVars, creating, cleanupVars, gc, resp, nreq>>
    /\ UNCHANGED <<bufVars, sessVars, daemonSide>>

PidNext ==
    \/ \E p \in Procs : StartCheck(p)
    \/ \E p \in Procs : StartAbort(p)
    \/ \E p \in Procs : StartWrite(p)
    \/ \E p \in Procs : StartServe(p)
    \/ \E p \in Procs : ServeExit(p)
    \/ \E p \in Procs : Killed(p)

PidSpec == DaemonInit /\ [][PidNext]_vars

(***************************************************************************)
(* ResurrectSpec: _resurrect_sessions, called by start() and by            *)
(* POST /resurrect, on a daemon that also serves POST /sessions, on a host *)
(* where other processes bind and release ports.  sessions.json holds any  *)
(* records with distinct ports and names when the daemon starts.  The      *)
(* session range is the ports of the model.                                *)
(***************************************************************************)
\* _resurrect_sessions calls over the whole run
MaxResurrects == 2

\* what get_shell_info_by_type finds for the shell of a record
Shells == {"known", "unknown"}

\* the contents of sessions.json a daemon can find when it starts
JsonContents ==
    {js \in SeqUpTo([port : Ports, name : Names], Cardinality(Ports)) :
        \A i, j \in DOMAIN js : i # j => js[i].port # js[j].port /\ js[i].name # js[j].name}

ResurrectInit ==
    /\ buffer = NewBuffer(BufSize)
    /\ hist = <<>>
    /\ last = NoOp
    /\ SessIdle
    /\ ApiIdle
    /\ sessions = [p \in Ports |-> NoName]
    /\ servers = {}
    /\ session_tasks = {}
    /\ session_sockets = {}
    /\ foreign \in SUBSET Ports
    /\ registry = [sessions |-> [p \in Ports |-> NoName], name_index |-> [n \in Names |-> NoPort]]
    /\ sessions_json \in JsonContents
    /\ creating = [p \in Ports |-> NoName]
    /\ cleanup_tasks = [p \in Ports |-> NoTask]
    /\ task = [t \in Tasks |-> NoTaskRec]
    /\ ntasks = 0
    /\ gc = [pending |-> <<>>, wait |-> NoTask]
    /\ resp = NoResp
    /\ nreq = 0
    /\ session_logs = {}
    /\ reg_idle = [p \in Ports |-> 0]
    /\ stopper = NoStop
    /\ up = TRUE
    /\ stopped_live = {}
    /\ ExtraIdle

\* result["failed"].append(...) or result["restored"].append(...)
Reported(r, name, port, status) ==
    Append(r, [name |-> name, port |-> port, status |-> status])

\* _resurrect_sessions up to its loop: sessions.json is read
ResurrectCall ==
    /\ res.pc \in {"idle", "returned", "raised"}
    /\ res.calls < MaxResurrects
    /\ res' = [pc |-> "loop", entries |-> sessions_json,
               cur |-> NoResurrect.cur, read |-> sessions_json, result |-> <<>>,
               calls |-> res.calls + 1]
    /\ UNCHANGED <<mapVars, foreign, utilVars, persistVars, creating, cleanupVars, gc, resp,
                   nreq, daemonSide>>
    /\ UNCHANGED <<bufVars, sessVars>>

\* the port _resurrect_sessions tries for a record: the original one, or a free
\* one when a session of the daemon has the original one; NoPort stands for the
\* RuntimeError of find_available_port
chosen_port(original_port) ==
    IF sessions[original_port] # NoName
    THEN find_available_port(Bound, 1, Cardinality(Ports) + 1)
    ELSE original_port

\* one round of the loop, up to 'await session.start()', to 'continue' or to an
\* exception no handler of the loop catches: the RuntimeError of
\* find_available_port, and the HTTPException of _reserve_session_socket, which
\* is no OSError
ResurrectBegin(shell) ==
    /\ res.pc = "loop"
    /\ res.entries # <<>>
    /\ LET entry == Head(res.entries)
           port == chosen_port(entry.port)
       IN  IF name_exists(registry, entry.name)
           THEN /\ res' = [res EXCEPT !.entries = Tail(res.entries),
                               !.result = Reported(res.result, entry.name, NoPort, "failed")]
                /\ UNCHANGED session_sockets
           ELSE IF port = NoPort \/ port \in Bound
           THEN /\ res' = [res EXCEPT !.pc = "raised"]
                /\ UNCHANGED session_sockets
           ELSE IF shell = "unknown"
           THEN /\ res' = [res EXCEPT !.entries = Tail(res.entries),
                               !.result = Reported(res.result, entry.name, NoPort, "failed")]
                /\ UNCHANGED session_sockets
           ELSE /\ session_sockets' = session_sockets \cup {port}
                /\ res' = [res EXCEPT !.pc = "starting", !.entries = Tail(res.entries),
                               !.cur = [port |-> port, name |-> entry.name,
                                        orig |-> entry.port]]
    /\ UNCHANGED <<sessions, servers, session_tasks, foreign, utilVars, persistVars,
                   creating, cleanupVars, gc, resp, nreq, daemonSide>>
    /\ UNCHANGED <<bufVars, sessVars>>

\* the round after 'await session.start()': the session is stored, registered
\* and served; a ValueError of registry.add is caught by 'except Exception'
ResurrectFinish ==
    /\ res.pc = "starting"
    /\ sessions' = [sessions EXCEPT ![res.cur.port] = res.cur.name]
    /\ session_logs' = session_logs \cup {res.cur.port}
    /\ IF name_exists(registry, res.cur.name)
       THEN /\ session_sockets' = session_sockets \ {res.cur.port}
            /\ res' = [res EXCEPT !.pc = "loop",
                           !.result = Reported(res.result, res.cur.name, NoPort, "failed")]
            /\ UNCHANGED <<servers, session_tasks, persistVars, reg_idle>>
       ELSE /\ registry' = add(registry, res.cur.port, res.cur.name)
            /\ reg_idle' = [reg_idle EXCEPT ![res.cur.port] = 0]
            /\ servers' = servers \cup {res.cur.port}
            /\ session_tasks' = session_tasks \cup {res.cur.port}
            /\ res' = [res EXCEPT !.pc = "loop",
                           !.result = Reported(res.result, res.cur.name, res.cur.port,
                                               IF res.cur.port = res.cur.orig
                                               THEN "restored" ELSE "relocated")]
            /\ sessions_json' = append_session_to_json(sessions_json, res.cur.port,
                                                       res.cur.name)
            /\ UNCHANGED session_sockets
    /\ UNCHANGED <<foreign, utilVars, creating, cleanupVars, gc, resp, nreq, stopVars>>
    /\ UNCHANGED <<bufVars, sessVars>>

\* session.start() raises: the socket is closed and the record reported as failed
ResurrectStartFails ==
    /\ res.pc = "starting"
    /\ session_sockets' = session_sockets \ {res.cur.port}
    /\ res' = [res EXCEPT !.pc = "loop",
                   !.result = Reported(res.result, res.cur.name, NoPort, "failed")]
    /\ UNCHANGED <<sessions, servers, session_tasks, foreign, utilVars, persistVars,
                   creating, cleanupVars, gc, resp, nreq, daemonSide>>
    /\ UNCHANGED <<bufVars, sessVars>>

\* the loop is over: 'return result'
ResurrectReturn ==
    /\ res.pc = "loop"
    /\ res.entries = <<>>
    /\ res' = [res EXCEPT !.pc = "returned"]
    /\ UNCHANGED <<mapVars, foreign, utilVars, persistVars, creating, cleanupVars, gc, resp,
                   nreq, daemonSide>>
    /\ UNCHANGED <<bufVars, sessVars>>

ResurrectNext ==
    \/ ResurrectCall
    \/ \E shell \in Shells : ResurrectBegin(shell)
    \/ ResurrectFinish
    \/ ResurrectStartFails
    \/ ResurrectReturn
    \/ \E port \in Ports, req_name \in Names : CreateBegin(port, req_name)
    \/ \E port \in Ports : CreateFinish(port)
    \/ \E port \in Ports : ForeignBind(port)
    \/ \E port \in Ports : ForeignClose(port)

ResurrectSpec == ResurrectInit /\ [][ResurrectNext]_vars

(***************************************************************************)
(* ParseSpec: one run_command call and the bytes it reads.  An earlier     *)
(* call has timed out; the call of the model has written its invocation,   *)
(* and the shell prints what the PTY delivers to the read loop in pieces   *)
(* of any size.  The buffer holds the whole stream and the stream is       *)
(* shorter than MAX_COLLECTED_BYTES.                                       *)
(***************************************************************************)
\* run_token of the call of the model, and that of the earlier call
ThisTok == 2
StaleTok == 1
\* the timeout of the call, in polls of 50 ms
ParsePolls == 4
\* MAX_COLLECTED_BYTES, scaled: more than the longest stream
ParseCollected == 20

\* what the terminal shows before the BEGIN line: nothing, the echo of the
\* invocation, the end of the earlier command's output with one of its markers
Pre == {<<>>, <<X>>, <<BEG>>, <<X, NL>>,
        <<BEG, TokByte(StaleTok), NL>>,
        <<END, TokByte(StaleTok), D1, NL>>}
\* the end of the BEGIN line: LF, or CR LF
Terminators == {<<NL>>, <<NL, NL>>}
\* what the command prints
Bodies == {<<>>, <<X>>, <<X, NL>>, <<X, NL, NL, NL, X, NL>>,
           <<END, TokByte(StaleTok), D1, NL>>}
\* what follows the END prefix up to the newline
Codes == {<<>>, <<D1>>, <<D1, D0>>, <<X>>}
\* what the terminal shows after the END line: nothing, the prompt
Post == {<<>>, <<X>>}

\* the helper __silc_exec of shell_detect, called with ThisTok, on a terminal
Printed(pre, nl, body, code, post) ==
    pre \o <<BEG, TokByte(ThisTok)>> \o nl \o body \o <<END, TokByte(ThisTok)>> \o code
        \o <<NL>> \o post

ParseStreams ==
    {Printed(pre, nl, body, code, post) :
         pre \in Pre, nl \in Terminators, body \in Bodies, code \in Codes, post \in Post}

\* run_command at "cursor = self.buffer.cursor" and the write of its invocation,
\* on a session that has printed nothing yet
ParseInit ==
    /\ \E s \in ParseStreams :
           /\ ptyOut = s
           /\ buffer = NewBuffer(Len(s))
    /\ hist = <<>>
    /\ last = NoOp
    /\ read_task = "running"
    /\ closed = FALSE
    /\ run_lock = TRUE
    /\ current_run_cmd = 1
    /\ run = [c \in Callers |->
                 IF c = 1
                 THEN [IdleRun EXCEPT !.pc = "write", !.cmd = 1, !.timeout = ParsePolls,
                                      !.token = ThisTok, !.cursor = 0]
                 ELSE IdleRun]
    /\ nruns = ThisTok
    /\ nclears = 0
    /\ ret = [NoResult EXCEPT !.caller = 2, !.status = "timeout"]
    /\ ptyIn = <<>>
    /\ reader = [active |-> FALSE, cursor |-> 0]
    /\ tui_active = FALSE
    /\ ws = {}
    /\ gc_task = "running"
    /\ idle_time = 0
    /\ pty_kills = 0
    /\ closer = [k \in Enders |-> IdleEnd]
    /\ ApiIdle
    /\ DaemonFresh
    /\ UtilIdle
    /\ PidIdle
    /\ AuxIdle
    /\ max_collected = ParseCollected

\* _read_loop: one pty.read, which returns the k bytes the shell has written
\* since the last one
ReadSome(k) ==
    /\ read_task = "running"
    /\ k \in 1..Len(ptyOut)
    /\ buffer' = append(buffer, SubSeq(ptyOut, 1, k))
    /\ hist' = hist \o SubSeq(ptyOut, 1, k)
    /\ ptyOut' = SliceFrom(ptyOut, k)
    /\ UNCHANGED <<last, lifeVars, daemonVars, sessSide, nclears, lockVars, runVars, ptyIn, reader>>

ParseNext ==
    \/ \E k \in 1..Len(ptyOut) : ReadSome(k)
    \/ \E c \in Callers : RunAfterWrite(c)
    \/ \E c \in Callers : RunPoll(c)
    \/ \E c \in Callers : RunFinish(c)

ParseSpec == ParseInit /\ [][ParseNext]_vars

(***************************************************************************)
(* InputSpec: the writers of one session's PTY.  write_input calls take    *)
(* the input lock; run_command, interrupt, clear_screen and reset_terminal *)
(* call pty.write directly.                                                *)
(***************************************************************************)
\* a plausible slip: write_input does not wait for the lock
freeAlways(lock) == TRUE

\* asyncio.Lock.acquire returns at once: the lock is free and nobody waits
free(lock) == ~lock.locked /\ lock.waiters = <<>>

\* write_input from the call to its first suspension: in the lock's queue, or,
\* with the lock taken, in pty.write
WriteInputCall(w) ==
    /\ ~closed
    /\ writer[w].pc = "idle"
    /\ ninputs < MaxInputs
    /\ ninputs' = ninputs + 1
    /\ IF free(input_lock)
       THEN /\ input_lock' = [input_lock EXCEPT !.locked = TRUE]
            /\ writer' = [writer EXCEPT ![w] = [pc |-> "write", at |-> Len(ptyIn)]]
       ELSE /\ input_lock' = [input_lock EXCEPT !.waiters = Append(@, w)]
            /\ writer' = [writer EXCEPT ![w].pc = "wait"]
    /\ UNCHANGED <<bufVars, sessVars, otherVars, tokenVars, max_collected, shell_up, read_pc>>

\* the lock was released: its first waiter takes it and goes on to pty.write
WriteInputWake(w) ==
    /\ writer[w].pc = "wait"
    /\ ~input_lock.locked
    /\ input_lock.waiters # <<>>
    /\ Head(input_lock.waiters) = w
    /\ input_lock' = [locked |-> TRUE, waiters |-> Tail(input_lock.waiters)]
    /\ writer' = [writer EXCEPT ![w] = [pc |-> "write", at |-> Len(ptyIn)]]
    /\ UNCHANGED <<bufVars, sessVars, otherVars, tokenVars, max_collected, ninputs, shell_up, read_pc>>

\* pty.write of write_input returns: os.write has written the text; the call
\* sleeps 50 ms with the lock held
WriteInputWritten(w) ==
    /\ writer[w].pc = "write"
    /\ ptyIn' = Append(ptyIn, INPUT)
    /\ writer' = [writer EXCEPT ![w].pc = "sleep"]
    /\ UNCHANGED <<bufVars, lifeVars, lockVars, runVars, ptyOut, reader, nclears, sessSide,
                   otherVars, tokenVars, max_collected, input_lock, ninputs,
                   shell_up, read_pc>>

\* write_input after its sleep: the lock is released, last_access is set
WriteInputDone(w) ==
    /\ writer[w].pc = "sleep"
    /\ writer' = [writer EXCEPT ![w] = IdleWriter]
    /\ input_lock' = [input_lock EXCEPT !.locked = FALSE]
    /\ idle_time' = 0
    /\ UNCHANGED <<bufVars, lifeVars, lockVars, runVars, ptyVars, reader, nclears, apiVars,
                   wsVars, endVars, otherVars, tokenVars, max_collected, ninputs, shell_up, read_pc>>

\* SilcSession.interrupt
Interrupt ==
    /\ ~closed
    /\ Len(ptyIn) < MaxInputs
    /\ ptyIn' = Append(ptyIn, CTRLC)
    /\ UNCHANGED <<bufVars, lifeVars, lockVars, runVars, ptyOut, reader, nclears, sessSide,
                   daemonVars>>

InputNext ==
    \/ \E w \in Writers : WriteInputCall(w)
    \/ \E w \in Writers : WriteInputWake(w)
    \/ \E w \in Writers : WriteInputWritten(w)
    \/ \E w \in Writers : WriteInputDone(w)
    \/ Interrupt
    \/ ClearScreen
    \/ ResetTerminal
    \/ \E c \in Callers : RunCall(c)
    \/ \E c \in Callers : RunAfterWrite(c)
    \/ \E c \in Callers : RunPoll(c)

InputSpec == SessInit /\ [][InputNext]_vars

(***************************************************************************)
(* PtySpec: one session whose shell exits.  Nobody calls close() or        *)
(* force_kill().                                                           *)
(***************************************************************************)
\* the shell exits: the slave side of the PTY is closed; what the shell has
\* printed can still be read
ShellExit ==
    /\ shell_up
    /\ shell_up' = FALSE
    /\ UNCHANGED <<bufVars, sessVars, otherVars, tokenVars, max_collected, input_lock, writer, ninputs,
                   read_pc>>

\* UnixPTY.read on a closed PTY: os.read returns b"" at end of file or raises
\* OSError, which read turns into b""
pty_read_closed == <<>>

\* _read_loop: pty.read returns b"", the loop goes to sleep(0.1)
ReadEof ==
    /\ read_task = "running"
    /\ read_pc = "read"
    /\ ~shell_up
    /\ ptyOut = <<>>
    /\ IF pty_read_closed = <<>>
       THEN read_pc' = "sleep" /\ UNCHANGED read_task
       ELSE read_task' = "done" /\ UNCHANGED read_pc
    /\ UNCHANGED <<bufVars, closed, lockVars, runVars, ptyVars, reader, nclears, sessSide,
                   otherVars, tokenVars, max_collected, input_lock, writer, ninputs, shell_up>>

\* _read_loop after sleep(0.1): "while not self._closed", the next pty.read
ReadWake ==
    /\ read_task = "running"
    /\ read_pc = "sleep"
    /\ IF closed
       THEN read_task' = "done" /\ UNCHANGED read_pc
       ELSE read_pc' = "read" /\ UNCHANGED read_task
    /\ UNCHANGED <<bufVars, closed, lockVars, runVars, ptyVars, reader, nclears, sessSide,
                   otherVars, tokenVars, max_collected, input_lock, writer, ninputs, shell_up>>

PtyNext ==
    \/ read_pc = "read" /\ ReadLoop
    \/ shell_up /\ ShellStep
    \/ ShellExit
    \/ ReadEof
    \/ ReadWake
    \/ \E c \in Callers : RunCall(c)
    \/ \E c \in Callers : RunAfterWrite(c)
    \/ \E c \in Callers : RunPoll(c)
    \/ \E c \in Callers : RunFinish(c)
    \/ \E c \in Callers : RunErrFinish(c)

PtySpec == SessInit /\ [][PtyNext]_vars

\* the event loop runs the read loop and the calls, the shell runs
PtyFairness ==
    /\ WF_vars(read_pc = "read" /\ ReadLoop)
    /\ WF_vars(ReadEof)
    /\ WF_vars(ReadWake)
    /\ WF_vars(shell_up /\ ShellStep)
    /\ \A c \in Callers : WF_vars(RunAfterWrite(c) \/ RunPoll(c) \/ RunFinish(c) \/ RunErrFinish(c))

PtyFairSpec == PtySpec /\ PtyFairness

(***************************************************************************)
(* ShareSpec: the StreamingService of one session with append-mode streams *)
(* on several files.  start_stream replaces self.deduplicator, and every   *)
(* running task calls compute_diff on the deduplicator the service holds   *)
(* at that moment.  Lines are numbers as in DedupSpec.                     *)
(***************************************************************************)
\* the lines the terminal shows: an empty one, two spellings of one text, and
\* two texts the sequence matcher finds similar
ShareLines == {0, 2, 3, 4, 6}
\* lines of the buffer tail in one round
MaxNewLines == 1
\* lines a file grows to
MaxFileLines == 3

\* _read_file_tail(filename, max_lines)
read_file_tail(lines, max_lines) ==
    IF Len(lines) > max_lines THEN LastN(lines, max_lines) ELSE lines

\* one round of _stream_append_task: the tail of the file is read, the novel
\* lines of the buffer tail are appended to the file
AppendRound(t, new_lines) ==
    LET filename == stream_task[t].file
        existing_lines == read_file_tail(stream_file[filename], WindowSize)
        r == compute_diff(exact_cache, existing_lines, new_lines)
    IN  /\ stream_task[t].pc = "running"
        /\ Len(stream_file[filename]) + Len(r.diff) <= MaxFileLines
        /\ exact_cache' = r.cache
        /\ diff' = r.diff
        /\ stream_file' = [stream_file EXCEPT ![filename] = @ \o r.diff]
        /\ last_round' = [file |-> filename, existing_lines |-> existing_lines,
                          new_lines |-> new_lines]
        /\ UNCHANGED <<foreign, portVars, streamVars, pidVars, res, max_collected, input_lock,
                       writer, ninputs, shell_up, read_pc, tokenVars>>
        /\ UNCHANGED <<mapVars, persistVars, creating, cleanupVars, gc, resp, nreq>>
        /\ UNCHANGED <<bufVars, sessVars, daemonSide>>

ShareNext ==
    \/ \E filename \in Files : StartStreamCall(filename)
    \/ \E t \in StreamTasks, new_lines \in SeqUpTo(ShareLines, MaxNewLines) :
           AppendRound(t, new_lines)

ShareSpec == DaemonInit /\ [][ShareNext]_vars

(***************************************************************************)
(* TokenSpec: the session of one name on a daemon that is stopped and      *)
(* started again.  POST /sessions creates the session with a token and a   *)
(* binding; the daemon process can end with the record of the session      *)
(* still in sessions.json, and start() then resurrects the session.        *)
(* Requests reach the session's server from loopback and other peers.      *)
(***************************************************************************)
\* the tokens POST /sessions is called with: none, or one without spaces
NamedTokens == {NoToken, <<"x">>}
\* the credentials of a request: none, that token or another, bare (as the
\* token parameter of a WebSocket) or in a Bearer header
NamedCreds == {<<>>, <<"x">>, <<"b">>, <<"B", SP, "x">>, <<"B", SP, "b">>}

\* _reserve_session_socket: bind_port("0.0.0.0" if is_global else "127.0.0.1", port)
bind_host(is_global) == IF is_global THEN "global" ELSE "local"

\* the peers that can connect to a server on that binding
reaches(peer, host) == host = "global" \/ (host = "local" /\ client_is_local(peer))

\* create_session for the name: the session gets the token of the request, the
\* record in sessions.json gets is_global and no token
CreateNamed(token, is_global) ==
    /\ binding = "none"
    /\ api_token' = token
    /\ binding' = bind_host(is_global)
    /\ json_global' = bind_host(is_global)
    /\ origin' = [token |-> token, binding |-> bind_host(is_global)]
    /\ UNCHANGED <<bufVars, lifeVars, lockVars, runVars, ptyVars, reader, nclears, http,
                   wsVars, endVars, idle_time, otherVars, max_collected, input_lock, writer,
                   ninputs, shell_up, read_pc>>

\* the session is closed and cleaned up: its record is removed
CloseNamed ==
    /\ binding # "none"
    /\ api_token' = NoToken
    /\ binding' = "none"
    /\ json_global' = "none"
    /\ UNCHANGED <<bufVars, lifeVars, lockVars, runVars, ptyVars, reader, nclears, http,
                   wsVars, endVars, idle_time, otherVars, max_collected, input_lock, writer,
                   ninputs, shell_up, read_pc, origin>>

\* the daemon process ends before the cleanup of the session has run: the
\* session and its server are gone, the record stays
DaemonEnds ==
    /\ binding # "none"
    /\ api_token' = NoToken
    /\ binding' = "none"
    /\ UNCHANGED <<bufVars, lifeVars, lockVars, runVars, ptyVars, reader, nclears, http,
                   wsVars, endVars, idle_time, otherVars, max_collected, input_lock, writer,
                   ninputs, shell_up, read_pc, json_global, origin>>

\* _resurrect_sessions for the record of the name:
\* SilcSession(port, name, shell_info, cwd=cwd) and the socket of entry["is_global"]
resurrect(is_global) == [api_token |-> NoToken, binding |-> is_global]

\* the daemon is started again and resurrects the session
ResurrectNamed ==
    /\ binding = "none"
    /\ json_global # "none"
    /\ api_token' = resurrect(json_global).api_token
    /\ binding' = resurrect(json_global).binding
    /\ UNCHANGED <<bufVars, lifeVars, lockVars, runVars, ptyVars, reader, nclears, http,
                   wsVars, endVars, idle_time, otherVars, max_collected, input_lock, writer,
                   ninputs, shell_up, read_pc, json_global, origin>>

\* a request arrives at the server of the session
Request(endpoint, peer, cred) ==
    /\ reaches(peer, binding)
    /\ http' = [endpoint |-> endpoint, peer |-> peer, cred |-> cred, status |-> 0,
                effect |-> "none"]
    /\ UNCHANGED <<bufVars, lifeVars, lockVars, runVars, ptyVars, reader, nclears, api_token,
                   wsVars, endVars, idle_time, daemonVars>>

TokenNext ==
    \/ \E token \in NamedTokens, is_global \in BOOLEAN : CreateNamed(token, is_global)
    \/ CloseNamed
    \/ DaemonEnds
    \/ ResurrectNamed
    \/ \E endpoint \in Endpoints, peer \in Peers, cred \in NamedCreds :
           Request(endpoint, peer, cred)
    \/ binding # "none" /\ ServeHttp
    \/ binding # "none" /\ ServeWs

TokenSpec == DaemonInit /\ [][TokenNext]_vars
(***************************************************************************)
(* Properties of RawByteBuffer (BufSpec).                                  *)
(***************************************************************************)
\* C5: starting from an empty buffer of capacity C, after appends totalling S bytes
\* the buffer holds exactly the last min(S, C) bytes of what was appended,
\* start_offset = max(0, S - C) and total_bytes = cursor = S
C5_AppendWindow ==
    LET S == Len(hist)
        C == buffer.maxlen
    IN  /\ buffer.buf = LastN(hist, Min(S, C))
        /\ buffer.start_offset = Max(0, S - C)
        /\ buffer.total_bytes = S
        /\ buffer.cursor = S

\* an append has overflowed a buffer that already held bytes
C5_Witness ==
    /\ last.op = "append"
    /\ last.pre.buf # <<>>
    /\ buffer.maxlen > 0
    /\ buffer.start_offset > last.pre.start_offset

\* C6: get_since(c) returns the buffer's bytes from index max(c, start_offset) -
\* start_offset to the end (nothing when c >= total_bytes) and the new cursor
\* total_bytes, and leaves the buffer as it was; these are the bytes of the stream
\* from offset max(c, start_offset) on, in order and once, and a reader that was
\* overtaken (c < start_offset) gets fewer bytes than new_cursor - c
C6_GetSince ==
    last.op = "get_since" =>
        LET from == Max(last.c, buffer.start_offset)
        IN  /\ buffer = last.pre
            /\ last.cursor = buffer.total_bytes
            /\ last.chunk = SliceFrom(buffer.buf, from - buffer.start_offset)
            /\ last.chunk = SliceFrom(hist, from)
            /\ (last.c >= buffer.total_bytes => last.chunk = <<>>)
            /\ (last.c < buffer.start_offset => Len(last.chunk) < last.cursor - last.c)

\* an overtaken reader still got bytes
C6_Witness ==
    /\ last.op = "get_since"
    /\ last.c >= 0
    /\ last.c < buffer.start_offset
    /\ last.chunk # <<>>

(***************************************************************************)
(* Properties of run_command (Spec).                                       *)
(***************************************************************************)
\* the callers whose run_command call is past the busy check
InCall == {c \in Callers : run[c].pc # "idle"}

\* C1: at most one run_command call per session is past the busy check, and it
\* holds the run lock
C1_OneRunner ==
    /\ Cardinality(InCall) <= 1
    /\ (InCall # {} => run_lock)

\* a call was turned away as busy while another one is polling
C1_Witness ==
    /\ ret.status = "busy"
    /\ \E c \in Callers \ {ret.caller} : run[c].pc = "poll"

\* C2 as stated: a call that returns a result returns completed, timeout or busy
C2_ThreeStatuses ==
    ret.status \in {"none", "raised", "completed", "timeout", "busy"}

\* what is left of a call in progress: the polls before its deadline, then
\* the sleep before its return
Rank(r) == 2 * r.timeout + (IF r.pc \in {"write", "poll"} THEN 1 ELSE 0)

\* C2, amended: a call that returns a result returns completed with an integer
\* exit code, timeout, busy, or error with exit code -1 (the output cap); and a
\* call past the busy check is at an await that completes (the write, a sleep),
\* and no step leaves it in progress without bringing it nearer to its deadline:
\* it ends after finitely many steps
C2_Terminates ==
    [][/\ ret'.status \in {"none", "raised", "completed", "timeout", "busy", "error"}
       /\ (ret'.status = "completed" => ret'.exit_code \in Nat)
       /\ (ret'.status = "error" => ret'.exit_code = -1)
       /\ \A c \in Callers :
              /\ run'[c].pc \in {"idle", "write", "poll", "fin", "intr"}
              /\ (run[c].pc # "idle" /\ run'[c] # run[c]) =>
                     \/ run'[c].pc = "idle"
                     \/ Rank(run'[c]) < Rank(run[c])
    ]_vars

\* a call has ended with status error, the lock is free again
C2_Witness ==
    /\ ret.status = "error"
    /\ ret.exit_code = -1
    /\ run[ret.caller].pc = "idle"
    /\ ~run_lock

\* C3: current_run_cmd is non-null only while the run lock is held: every way out
\* of run_command releases the lock and clears current_run_cmd
C3_CmdOnlyWhileLocked ==
    current_run_cmd # None => run_lock

\* C4: a call returns busy if and only if another call is past the busy check when
\* it is made; the busy call writes nothing to the PTY, leaves the lock and
\* current_run_cmd as they are, and reports the holder's command as running_cmd
C4_Busy ==
    [][\A c \in Callers :
          LET busy == /\ run'[c].pc = "idle"
                      /\ ret' # ret
                      /\ ret'.caller = c
                      /\ ret'.status = "busy"
              called == run[c].pc = "idle" /\ (busy \/ run'[c].pc # "idle")
              others == {d \in Callers \ {c} : run[d].pc # "idle"}
          IN  called =>
                  /\ busy <=> others # {}
                  /\ busy => /\ UNCHANGED <<run_lock, current_run_cmd, ptyIn, run>>
                             /\ \E d \in others : ret'.running_cmd = run[d].cmd
    ]_vars

\* a busy result names the command of the call in progress
C4_Witness ==
    /\ ret.status = "busy"
    /\ InCall # {}
    /\ \A d \in InCall : d # ret.caller /\ ret.running_cmd = run[d].cmd

(***************************************************************************)
(* Properties of the buffer's readers (CursorSpec).                        *)
(***************************************************************************)
\* C7: the cursor a reader gets back from get_since never decreases, whatever
\* appends and clears happen between its polls
C7_CursorMonotone ==
    [][(reader.active /\ reader'.active) => reader'.cursor >= reader.cursor]_vars

(***************************************************************************)
(* Properties of the daemon (DaemonSpec).                                  *)
(***************************************************************************)
\* no create, cleanup or garbage collection is under way for the port
Settled(port) ==
    /\ creating[port] = NoName
    /\ \A t \in Tasks : ~(task[t].port = port /\ InFlight(t))
    /\ \A i \in 1..Len(gc.pending) : gc.pending[i] # port

\* C8: for every live session named N, registry.get_by_name(N) is the entry of
\* the session's port; and once close and cleanup have finished, a name without
\* a session is in the registry no more
C8_RegistryAgrees ==
    /\ \A p \in Ports :
           (sessions[p] # NoName /\ Settled(p)) =>
               /\ get_by_name(registry, sessions[p]).port = p
    /\ (\A p \in Ports : Settled(p)) =>
           \A n \in Names :
               (\A p \in Ports : sessions[p] # n) =>
                   /\ get_by_name(registry, n) = NoEntry
                   /\ ~name_exists(registry, n)

\* the POST /sessions of this step names a port that cannot be bound
RefusedCreate ==
    /\ nreq' = nreq + 1
    /\ resp'.port \in Bound

\* C9: POST /sessions for a port that cannot be bound is answered 400, starts no
\* session, and leaves the sessions map, the registry, the socket map and
\* sessions.json as they were: the holder of the port keeps its socket
C9_Refused ==
    [][RefusedCreate =>
           /\ resp'.op = "create"
           /\ resp'.status = 400
           /\ UNCHANGED <<sessions, servers, session_tasks, session_sockets, registry,
                          sessions_json, creating>>
    ]_vars

\* a create was refused on a port another process holds, while a session holds
\* its own socket
C9_Witness ==
    /\ resp = [op |-> "create", port |-> resp.port, status |-> 400]
    /\ resp.port \in foreign
    /\ \E q \in Ports : sessions[q] # NoName /\ q \in session_sockets /\ q \in servers

\* C10: for every port at most one _cleanup_session task is in flight
C10_OneCleanup ==
    \A p \in Ports : Cardinality({t \in Tasks : task[t].port = p /\ InFlight(t)}) <= 1


(***************************************************************************)
(* The session API (ApiSpec)                                               *)
(***************************************************************************)
\* the peers whose address is a loopback address
Loopback == {"127.0.0.1", "::ffff:127.0.0.1"}

\* h[a..b] is all spaces
Blank(h, a, b) == \A i \in a..b : h[i] = SP

\* the header is "Bearer <t>": l spaces, the scheme in either case, a space, m
\* more spaces, the token t, and spaces to the end
IsBearer(h, t) ==
    \E l \in 0..Len(h), m \in 0..Len(h) :
        LET n == l + 2 + m + Len(t)
        IN  /\ n <= Len(h)
            /\ Blank(h, 1, l)
            /\ h[l + 1] \in {"B", "b"}
            /\ h[l + 2] = SP
            /\ Blank(h, l + 3, l + 2 + m)
            /\ SubSeq(h, l + 3 + m, n) = t
            /\ Blank(h, n + 1, Len(h))

\* the header has the scheme Bearer, a space and some credentials after it
WellFormed(h) ==
    \E l \in 0..Len(h) :
        /\ l + 2 <= Len(h)
        /\ Blank(h, 1, l)
        /\ h[l + 1] \in {"B", "b"}
        /\ h[l + 2] = SP
        /\ ~Blank(h, l + 3, Len(h))

\* the step serves a request to a token-gated endpoint
Served == http.status = 0 /\ http'.status # 0 /\ http.endpoint \in Gated

\* C14 as stated: a request to a token-gated endpoint is allowed iff the session
\* has no token, or the peer is loopback, or the header is "Bearer <t>" with t
\* the session's token
C14_BearerIff ==
    [][Served =>
         ((http'.status \in {200, 410}) <=>
              \/ api_token = <<>>
              \/ http.peer \in Loopback
              \/ IsBearer(http.cred, api_token))]_vars

\* C14, corrected: a request to a token-gated endpoint is allowed iff the session
\* has no token, or the peer is loopback, or the header is "Bearer <t>" with t
\* the session's token and the token neither begins nor ends with a space (the
\* credentials are compared after stripping); a request that is not allowed gets
\* 401 when the header is missing or malformed and 403 otherwise, and changes
\* nothing in the session
C14_Auth ==
    [][Served =>
         LET ok == \/ api_token = <<>>
                   \/ http.peer \in Loopback
                   \/ /\ IsBearer(http.cred, api_token)
                      /\ api_token[1] # SP
                      /\ api_token[Len(api_token)] # SP
         IN  /\ ok <=> http'.status \in {200, 410}
             /\ ~ok => /\ http'.status = IF WellFormed(http.cred) THEN 403 ELSE 401
                       /\ http'.effect = "none"
                       /\ UNCHANGED <<bufVars, lifeVars, lockVars, runVars, ptyVars,
                                      reader, nclears, api_token, wsVars, endVars,
                                      idle_time>>]_vars

\* C14: a remote request with the token in a padded, lower-case header was let in
C14_Witness ==
    /\ http.status = 200
    /\ http.peer = "203.0.113.5"
    /\ api_token = <<"x">>
    /\ http.cred = <<"b", SP, SP, "x">>

\* C15: every request to /token from a remote peer is rejected, whatever
\* credentials it carries (here: to a session that has a token)
C15_TokenLocalOnly ==
    [][(Served /\ http.endpoint = "token" /\ http.peer = "203.0.113.5"
               /\ api_token # <<>>) =>
           http'.status \in {401, 403}]_vars

\* C16: once the session is not alive, every request that passes the token check
\* is answered 410 and does nothing to the session
C16_Gone ==
    [][(http.status = 0 /\ http'.status \notin {0, 401, 403, 1008} /\ ~alive) =>
           /\ http'.status = 410
           /\ http'.effect = "none"
           /\ UNCHANGED wsVars]_vars

(***************************************************************************)
(* The end of a session and its WebSockets (EndSpec)                       *)
(***************************************************************************)
\* caller k calls close() or force_kill() in this step
Calls(k) == closer'[k].calls = closer[k].calls + 1

\* caller k has made a call that found the session open, and has returned from it
Returned(k) == closer[k].op # "none" /\ closer[k].pc = "idle"

\* C13: close() and force_kill() are idempotent: a call on a session that a call
\* has closed before cancels nothing and does not kill the PTY again, and once
\* the first call has returned the session is never alive again
C13_Idempotent ==
    [][/\ \A k \in Enders :
            (Calls(k) /\ closed) => UNCHANGED <<lifeVars, gc_task, pty_kills, tui_active>>
       /\ (\E k \in Enders : Returned(k)') => ~alive']_vars

\* C17: while the session is open, tui_active is true iff at least one accepted
\* WebSocket is still attached, whatever the number and the order of the connects
\* and disconnects
C17_TuiIffAttached == ~closed => (tui_active <=> ws # {})


(***************************************************************************)
(* The idle timeout of a session (GcSpec)                                  *)
(***************************************************************************)
\* the GC loop of the session makes its decision in this step
GcDecides == gc_task = "due" /\ gc_task' # "due"

\* C18: at each wake-up of the session GC loop the session is closed iff it has
\* been idle for more than the limit, no TUI is attached and the run lock is free;
\* otherwise the step leaves the session as it is and the loop sleeps again
C18_GcCloses ==
    [][GcDecides =>
          /\ closed' <=> (idle_time > IdleTimeout /\ ~tui_active /\ ~locked)
          /\ (locked \/ tui_active) => ~closed'
          /\ ~closed' => /\ gc_task' = "running"
                         /\ UNCHANGED <<lifeVars, pty_kills, wsVars, lockVars>>]_vars

\* the GC loop has closed the session, and has also let a locked one live
C18_Witness == closed /\ closer[0].op = "close" /\ pty_kills = 1 /\ nruns > 0

(***************************************************************************)
(* The daemon's idle timeout (ReapSpec)                                    *)
(***************************************************************************)
\* the daemon's garbage collector takes the followed session's entry out of the
\* registry in this step, to clean the session up
Reaps ==
    /\ registry.sessions[SessPort] # NoName
    /\ registry'.sessions[SessPort] = NoName
    /\ \E i \in 1..Len(gc'.pending) : gc'.pending[i] = SessPort

\* C19: the daemon's garbage collector reaps a session only when the session is
\* idle by its own criteria: no request served within the limit, no run_command
\* holding the lock, no WebSocket attached
C19_ReapsIdleOnly ==
    [][Reaps => (idle_time > IdleTimeout /\ ~locked /\ ~tui_active)]_vars

\* nothing of the followed session is left in the daemon
Released ==
    /\ SessPort \notin session_sockets
    /\ SessPort \notin servers
    /\ registry.sessions[SessPort] = NoName
    /\ \A i \in 1..Len(sessions_json) : sessions_json[i].port # SessPort

Finishes(t) == InFlight(t) /\ task'[t].pc = "done"

\* C11: in a running daemon a cleanup that has started executes every step: its
\* first step takes the port out of the servers, tasks and sockets maps, and when
\* its task finishes the port is in neither the sessions map, the registry nor
\* sessions.json, and its log is deleted
C11_EveryStep ==
    [][\A t \in Tasks :
          /\ (up /\ task[t].pc = "start" /\ task'[t].pc # "start") =>
                 /\ task[t].port \notin servers'
                 /\ task[t].port \notin session_tasks'
                 /\ task[t].port \notin session_sockets'
          /\ (up /\ Finishes(t)) =>
                 /\ sessions'[task[t].port] = NoName
                 /\ registry'.sessions[task[t].port] = NoName
                 /\ \A i \in 1..Len(sessions_json') : sessions_json'[i].port # task[t].port
                 /\ task[t].port \notin session_logs']_vars

\* C20: once the daemon has exited, sessions.json still holds a record for every
\* session that was live when the stop was requested
C20_Persists ==
    ~up => \A s \in stopped_live :
               \E i \in 1..Len(sessions_json) : sessions_json[i].name = s.name


(***************************************************************************)
(* The deadline and the output cap of run_command (Spec)                   *)
(***************************************************************************)
\* caller c's call goes on polling, or returns timeout, in this step
PollsOn(c) ==
    /\ run[c].pc \in {"write", "poll"}
    /\ run'[c] # run[c]
    /\ \/ run'[c].pc = "poll"
       \/ run'[c].pc = "idle" /\ ret'.status = "timeout"

\* C29: a run_command call that returns timeout returns from its polling loop,
\* and neither a poll nor the return at the deadline writes to the PTY, kills it
\* or closes the session: the invocation is all the call has written
C29_TimeoutLeavesCommand ==
    [][\A c \in Callers :
          /\ (run[c].pc # "idle" /\ run'[c].pc = "idle" /\ ret'.status = "timeout")
                 => run[c].pc \in {"write", "poll"}
          /\ PollsOn(c) => UNCHANGED <<ptyIn, lifeVars, pty_kills>>]_vars

\* a call has timed out while its invocation is still waiting for the shell
C29_Witness == ret.status = "timeout" /\ ptyIn # <<>> /\ ~closed

\* C30 as stated: whenever the bytes a call has accumulated, with those it reads
\* in this step, exceed the cap, the call interrupts (and does not return
\* completed or timeout)
C30_AboveCapIsError ==
    [][\A c \in Callers :
          (/\ run[c].pc \in {"write", "poll"}
           /\ run'[c] # run[c]
           /\ ~(run'[c].pc = "idle" /\ ret'.status = "raised")
           /\ Len(run[c].collected \o get_since(buffer, run[c].cursor).chunk)
                  > MaxCollected) => run'[c].pc = "intr"]_vars

\* C30, amended: before the deadline, a poll whose bytes bring the accumulator
\* above the cap interrupts; an
\* accumulator above the cap is that of a call that has written Ctrl-C, once,
\* and is about to return error: the step that finds the accumulator above the
\* cap writes one Ctrl-C, the call then returns error with exit code -1
\* (unless its task is cancelled) without writing again, and a call that
\* completes has an accumulator within the cap
C30_CapInterrupts ==
    [][\A c \in Callers :
          /\ (/\ run[c].pc \in {"write", "poll"}
              /\ run'[c] # run[c]
              /\ run'[c].pc # "idle"
              /\ Len(run[c].collected \o get_since(buffer, run[c].cursor).chunk)
                     > MaxCollected) => run'[c].pc = "intr"
          /\ Len(run'[c].collected) > MaxCollected => run'[c].pc = "intr"
          /\ (run[c].pc # "intr" /\ run'[c].pc = "intr") =>
                 /\ Len(run'[c].collected) > MaxCollected
                 /\ ptyIn' = Append(ptyIn, CTRLC)
          /\ (run[c].pc = "intr" /\ run'[c].pc # "intr") =>
                 /\ ptyIn' = ptyIn
                 /\ run'[c].pc = "idle"
                 /\ ret'.status \in {"error", "raised"}
                 /\ (ret'.status = "error" => ret'.exit_code = -1)
          /\ (run[c].pc # "idle" /\ run'[c].pc = "idle" /\ ret'.status = "completed")
                 => Len(run[c].collected) <= MaxCollected]_vars

\* a call has returned error after its Ctrl-C
C30_Witness ==
    /\ ret.status = "error"
    /\ \E i \in 1..Len(ptyIn) : ptyIn[i] = CTRLC

(***************************************************************************)
(* sessions.json on its own (JsonSpec)                                     *)
(***************************************************************************)
\* no two records of js have the same port, and no two the same name
UniqueKeys(js) ==
    \A i, j \in 1..Len(js) :
        (js[i].port = js[j].port \/ js[i].name = js[j].name) => i = j

\* the records of js that pass keep are, in the same order, the records of out
KeptInOrder(js, out, keep(_)) ==
    /\ \A i \in 1..Len(js) : keep(js[i]) => \E k \in 1..Len(out) : out[k] = js[i]
    /\ \A k \in 1..Len(out) : keep(out[k]) /\ \E i \in 1..Len(js) : js[i] = out[k]
    /\ \A k, l \in 1..Len(out) :
           k < l => \E i, j \in 1..Len(js) : i < j /\ js[i] = out[k] /\ js[j] = out[l]

\* C23: whatever the calls made so far, sessions.json holds no two records with
\* the same port and no two with the same name; append(e) leaves e as the last
\* record and the only one with e's port or name, the other records kept in
\* order; remove(p) deletes the records of port p and keeps the others in order,
\* so that append(e) followed by remove(e.port) leaves no record of e
C23_JsonKeys ==
    [][/\ UniqueKeys(sessions_json')
       /\ \A port, name \in JsonKeys :
              LET e == [port |-> port, name |-> name]
                  js == append_session_to_json(sessions_json, port, name)
              IN  /\ sessions_json' = js =>
                         /\ js[Len(js)] = e
                         /\ KeptInOrder(sessions_json, SubSeq(js, 1, Len(js) - 1),
                                        LAMBDA r : r.port # port /\ r.name # name)
                  /\ \A i \in 1..Len(remove_session_from_json(js, port)) :
                         remove_session_from_json(js, port)[i] # e
       /\ \A port \in JsonKeys :
              sessions_json' = remove_session_from_json(sessions_json, port) =>
                  KeptInOrder(sessions_json, sessions_json', LAMBDA r : r.port # port)]_vars

\* an append has replaced two records, one by its port and one by its name
C23_Witness ==
    /\ Len(sessions_json) = 2
    /\ sessions_json[2] = [port |-> 1, name |-> 2]
    /\ sessions_json[1] = [port |-> 3, name |-> 3]

(***************************************************************************)
(* The port search (PortSpec)                                              *)
(***************************************************************************)
\* the free ports of the range of the call that `f` records
FreeIn(f) == {p \in f.start..(f.end - 1) : p \notin Bound}

\* C26: find_available_port(start, end) returns a free port of [start, end)
\* whenever the range has one, and raises only when every port of the range is
\* occupied.
C26_FindsWhenFree ==
    [][\A start \in PortRange, end \in 1..(MaxRange + 1) :
          FindPort(start, end) =>
              /\ found'.port # NoPort => found'.port \in FreeIn(found')
              /\ found'.port = NoPort => FreeIn(found') = {}]_vars

(***************************************************************************)
(* The cache of the deduplicator (DedupSpec)                               *)
(***************************************************************************)
\* C28: after every compute_diff call the exact-match cache holds at most
\* 2 x window_size entries.
C28_CacheBounded == Cardinality(exact_cache) <= 2 * WindowSize

(***************************************************************************)
(* The stream tasks of one session (StreamSpec)                            *)
(***************************************************************************)
\* the tasks of a filename that have not finished
Unfinished(filename) ==
    {t \in StreamTasks : stream_task[t].file = filename
                         /\ stream_task[t].pc \in {"running", "cancelling"}}

\* C27: under any interleaving of start_stream and stop_stream requests at most
\* one stream task per filename is running at any time.
C27_OneTaskPerFile == \A filename \in Files : Cardinality(Unfinished(filename)) <= 1

(***************************************************************************)
(* The PID file (PidSpec)                                                  *)
(***************************************************************************)
\* C24: at most one daemon is running, and while a daemon is running the PID
\* file exists and holds its PID.
C24_Singleton ==
    /\ Cardinality({p \in Procs : starter[p] = "serving"}) <= 1
    /\ \A p \in Procs : starter[p] = "serving" => pidfile = p

(***************************************************************************)
(* Resurrect (ResurrectSpec)                                               *)
(***************************************************************************)
\* C21: resurrect never raises, and the result it returns holds each record
\* it read exactly once, as restored or as failed.
C21_EveryEntryReported ==
    /\ res.pc # "raised"
    /\ res.pc = "returned" =>
           /\ Len(res.result) = Len(res.read)
           /\ \A i \in DOMAIN res.read : res.result[i].name = res.read[i].name

\* a port nothing listens on and no session of the daemon has
FreePort(port) == port \notin Bound /\ sessions[port] = NoName

\* resurrect has chosen the port of a record and awaits session.start()
Places == res.pc = "loop" /\ res'.pc = "starting"

\* resurrect stores the session it has started
Stores == res.pc = "starting" /\ res'.pc = "loop" /\ sessions' # sessions

\* C22: resurrect never creates a second session for a name that is live; a
\* resurrected session is placed on its original port when that port is free
\* and on another free port otherwise; its status is 'restored' iff its port is
\* the original one, 'relocated' otherwise.
C22_PlacedOnce ==
    [][/\ Places =>
              /\ FreePort(res'.cur.orig) => res'.cur.port = res'.cur.orig
              /\ ~FreePort(res'.cur.orig) =>
                     res'.cur.port # res'.cur.orig /\ FreePort(res'.cur.port)
       /\ Stores =>
              /\ ~name_exists(registry, res.cur.name)
              /\ \A q \in Ports : sessions[q] # res.cur.name
              /\ LET r == res'.result[Len(res'.result)]
                 IN  /\ r.name = res.cur.name
                     /\ r.port = res.cur.port
                     /\ r.status = "restored" <=> res.cur.port = res.cur.orig
                     /\ r.status = "relocated" <=> res.cur.port # res.cur.orig]_vars

(***************************************************************************)
(* The end of the daemon (StopFairSpec)                                    *)
(***************************************************************************)
\* a /shutdown or /killall request is being served
StopRequested == up /\ stopper.op \in {"shutdown", "killall"} /\ stopper.phase = "loop"

\* C25: every /shutdown and every /killall request leads to the shutdown event
\* set and the daemon's server told to exit, whatever the cleanups do, and then
\* to start() returned and the PID file removed.
C25_StopEnds ==
    /\ StopRequested ~> (stopper.op \in {"shutdown", "killall"} /\ stopper.phase = "watch")
    /\ StopRequested ~> (~up /\ pidfile = NoPid)

\* a killall has ended the daemon after the cleanup of one session timed out and
\* the cleanup of another raised
C25_Witness ==
    /\ ~up
    /\ pidfile = NoPid
    /\ stopper.op = "killall"
    /\ \E t \in Tasks : task[t].pc = "done" /\ registry.sessions[task[t].port] # NoName
    /\ \E t \in Tasks : /\ task[t].pc = "gone"
                         /\ registry.sessions[task[t].port] = NoName
                         /\ \E i \in DOMAIN sessions_json : sessions_json[i].port = task[t].port

(***************************************************************************)
(* The parser of run_command (ParseSpec)                                   *)
(***************************************************************************)
\* the bytes of s after the first BEGIN line of token t: after the marker and
\* the CR/LF that end its line
AfterBegin(s, t) ==
    StripLeadingNL(SliceFrom(s, Find(s, begin_marker(t)) + Len(begin_marker(t))))

\* C31: a call that has parsed its END line (it returns completed after one more
\* sleep) has received its BEGIN marker, its END prefix and the CR/LF after it;
\* its output is made of the bytes between the BEGIN line and the END prefix
\* and has no marker line; its exit code is the number between the END prefix
\* and that CR/LF.
C31_Brackets ==
    \A c \in Callers :
        run[c].pc = "fin" =>
            LET t == run[c].token
                after == AfterBegin(hist, t)
                e == Find(after, end_prefix(t))
                tail == SliceFrom(after, e + Len(end_prefix(t)))
                n == FirstNewline(tail)
            IN  /\ Find(hist, begin_marker(t)) >= 0
                /\ e >= 0
                /\ n >= 0
                /\ run[c].output = run_output(SubSeq(after, 1, e))
                /\ \A i \in 1..Len(split(run[c].output)) : ~sentinel(split(run[c].output)[i])
                /\ run[c].exit_code = ExitCode(SubSeq(tail, 1, n))

\* what the shell prints as BEGIN marker and as END prefix of the call with token t
PrintedBegin(t) == <<BEG, TokByte(t)>>
PrintedEnd(t) == <<END, TokByte(t)>>

\* C32: a call is past its BEGIN marker only when the BEGIN marker of its own
\* token has been appended since its cursor snapshot and the call has read it;
\* it has parsed an END line only when the END prefix of its own token has been
\* appended after that marker, whatever markers of the earlier call arrive.
C32_OwnMarkers ==
    \A c \in Callers :
        LET t == run[c].token
            b == Find(hist, PrintedBegin(t))
        IN  /\ (run[c].pc # "idle" /\ run[c].started) =>
                   /\ b >= 0
                   /\ run[c].cursor >= b + Len(PrintedBegin(t))
            /\ run[c].pc = "fin" =>
                   /\ Find(SliceFrom(hist, b + Len(PrintedBegin(t))), PrintedEnd(t)) >= 0
                   /\ ret.status # "completed"
            /\ ret.status = "completed" => ret.caller = c \/ run[c].pc = "idle"

\* the call has parsed its END line after a BEGIN line and an END line of the
\* earlier call arrived
C32_Witness ==
    /\ run[1].pc = "fin"
    /\ run[1].token = ThisTok
    /\ Find(hist, PrintedBegin(StaleTok)) >= 0
    /\ Find(hist, PrintedEnd(StaleTok)) >= 0

\* run_command when its first poll returns all of s
OneShot(s, t) == Poll([IdleRun EXCEPT !.token = t], [chunk |-> s, cursor |-> Len(s)])

\* C37: a call that has parsed its END line has the output and the exit code of
\* the call whose first poll returns the whole stream, however the stream was
\* split into reads and polls.
C37_AnyChunking ==
    \A c \in Callers :
        run[c].pc = "fin" =>
            LET one == OneShot(hist \o ptyOut, run[c].token)
            IN  /\ one.outcome = "completed"
                /\ run[c].output = one.output
                /\ run[c].exit_code = one.exit_code

(***************************************************************************)
(* The socket of a session that is cleaned up (DaemonSpec)                 *)
(***************************************************************************)
\* C33: the first run of a _cleanup_session task, up to its first await or its
\* end, closes the listening socket of its port: when the task is suspended in
\* the wait for the server task or in session.close() the daemon no longer
\* holds a socket on the port, and the registry entry is removed no earlier than
\* in that run.
C33_SocketFirst ==
    [][\A t \in Tasks :
          LET port == task[t].port
          IN  /\ (task[t].pc = "start" /\ task'[t].pc # "start") => port \notin session_sockets'
              /\ (task[t].pc = "start" /\ task'[t].pc \in {"await_task", "await_close"})
                     => registry'.sessions[port] = registry.sessions[port]]_vars

\* a cleanup waits for the server task of a session whose port is free again
C33_Witness ==
    \E t \in Tasks :
        /\ task[t].pc = "await_task"
        /\ task[t].port \notin Bound
        /\ sessions[task[t].port] # NoName
        /\ registry.sessions[task[t].port] # NoName

(***************************************************************************)
(* The writers of the PTY (InputSpec)                                      *)
(***************************************************************************)
\* the write_input calls that hold the input lock
Holders == {w \in Writers : writer[w].pc \in {"write", "sleep"}}

\* C34: at most one write_input call is inside pty.write, and it holds the input
\* lock; a write to the PTY by run_command, interrupt, clear_screen or
\* reset_terminal is made whether the lock is held or not and leaves the lock
\* and the write_input calls as they are.
C34_InputLock ==
    /\ [](/\ Cardinality(Holders) <= 1
          /\ input_lock.locked <=> Holders # {})
    /\ [][(ptyIn' # ptyIn /\ writer' = writer) => input_lock' = input_lock]_vars
    /\ [][(\E w \in Writers : writer[w].pc = "write" /\ writer'[w].pc = "sleep")
              => ptyIn' = Append(ptyIn, INPUT)]_vars

\* while a write_input call is inside pty.write with the lock held, run_command
\* has written its invocation, interrupt its Ctrl-C and clear_screen its sequence
C34_Witness ==
    \E w \in Writers :
        /\ writer[w].pc = "write"
        /\ input_lock.locked
        /\ \E i, j, k \in (writer[w].at + 1)..Len(ptyIn) :
               ptyIn[i] >= 1 /\ ptyIn[j] = CTRLC /\ ptyIn[k] = CLEARSEQ

(***************************************************************************)
(* The end of the shell (PtyFairSpec)                                      *)
(***************************************************************************)
\* C35: once the shell has exited the read loop ends, and get_status reports
\* alive = false, with no call of close().
C35_ReadLoopExits == ~shell_up ~> read_task = "done"

(***************************************************************************)
(* The deduplicator shared by the streams of a session (ShareSpec)         *)
(***************************************************************************)
\* the elements of a sequence
Elements(s) == {s[i] : i \in DOMAIN s}

\* C36: a line of new_lines whose normalized form is not empty is left out of
\* the result of compute_diff only if it matches, exactly after normalization
\* or fuzzily, one of the last window_size lines of the existing_lines of that
\* call: lines of earlier calls, of another file or from before the window do
\* not suppress it.
C36_OnlyWindow ==
    last_round.file # 0 =>
        LET recent_lines == LastN(last_round.existing_lines, WindowSize)
        IN  \A line \in Elements(last_round.new_lines) :
                normalize_line(line) # 0 /\ line \notin Elements(diff) =>
                    \E existing \in Elements(recent_lines) :
                        \/ normalize_line(line) = normalize_line(existing)
                        \/ is_similar(line, existing)

(***************************************************************************)
(* The maps of the daemon under creates and cleanups (DaemonSpec)          *)
(***************************************************************************)
\* the names of the entries of the registry
EntryNames(reg) == {reg.sessions[p] : p \in Ports} \ {NoName}

\* C38: for a port with no create and no cleanup in progress the sessions map,
\* the servers, the reserved sockets and the registry agree on whether the
\* port has a session; and when no port has one in progress the name index of
\* the registry holds exactly the names of its entries.
C38_MapsAgree ==
    /\ \A p \in Ports :
           Settled(p) =>
               /\ (sessions[p] # NoName) = (p \in servers)
               /\ (sessions[p] # NoName) = (p \in session_sockets)
               /\ (sessions[p] # NoName) = (registry.sessions[p] # NoName)
    /\ (\A p \in Ports : Settled(p)) =>
           {n \in Names : name_exists(registry, n)} = EntryNames(registry)

(***************************************************************************)
(* The token of a session that is resurrected (TokenSpec)                  *)
(***************************************************************************)
\* the request presents the token t: in its Authorization header, or for a
\* WebSocket in its token parameter
Presents(request, t) ==
    IF request.endpoint = "ws" THEN request.cred = t ELSE IsBearer(request.cred, t)

\* C39: while a session exists under a name that was created with a token T on
\* a global binding, its server answers a request of a peer that is not
\* loopback and does not present T with 401, 403 or the close code 1008; a
\* session of that name on a global binding has the token T, after a resurrect
\* too.
C39_TokenRestored ==
    /\ [](origin.binding = "global" /\ origin.token # NoToken /\ binding = "global"
              => api_token = origin.token)
    /\ [][(/\ origin.binding = "global"
           /\ origin.token # NoToken
           /\ http.status = 0
           /\ http'.status # 0
           /\ ~client_is_local(http.peer)
           /\ ~Presents(http, origin.token))
          => http'.status \in {401, 403, 1008}]_vars

(***************************************************************************)
(* The sessions of a daemon stopped by a signal (TeardownSpec)             *)
(***************************************************************************)
\* C40: when the daemon stopped by SIGINT or SIGTERM exits, _watch_shutdown has
\* no session left to clean and awaits no cleanup task, and every session that
\* was live when the signal came is out of the sessions map, with its socket
\* closed.
C40_SignalCleansAll ==
    [][(up /\ ~up' /\ stopper.op = "signal") =>
           /\ stopper.ports = <<>>
           /\ stopper.wait = NoTask
           /\ \A s \in stopped_live :
                  /\ sessions[s.port] = NoName
                  /\ s.port \notin session_sockets]_vars
=============================================================================
